---- MODULE Spec2Model ----
(***************************************************************************)
(* A model of the zombie survival game: the simulation core (class Game),  *)
(* the entity factory, the effects manager and the geometry utilities.     *)
(*                                                                         *)
(* Units.  Times are integer milliseconds.  Lengths are integer hundredths *)
(* of a pixel (Px(n) is n pixels), which makes every per-frame             *)
(* displacement of the source an integer (0.9 * 0.7 = 0.63 px is 63).      *)
(* A value of Math.random() is an integer k in 0..99 standing for k/100.   *)
(* Directions are unit vectors in thousandths.                             *)
(***************************************************************************)
EXTENDS Integers, Sequences, FiniteSets, TLC

Px(n) == n * 100

Min(a, b) == IF a < b THEN a ELSE b
Max(a, b) == IF a > b THEN a ELSE b
Abs(a) == IF a < 0 THEN -a ELSE a
\* Division rounding toward zero, as a float product cut to the length grid.
Trunc(a, b) == IF a >= 0 THEN a \div b ELSE -((-a) \div b)

---------------------------------------------------------------------------
(* constants.ts *)

CANVAS_WIDTH == Px(800)
CANVAS_HEIGHT == Px(800)

PLAYER_WIDTH == Px(40)
PLAYER_HEIGHT == Px(40)
PLAYER_SPEED == Px(4)
PLAYER_MAX_HEALTH == 100
PLAYER_SHOOT_INTERVAL == 150
PLAYER_INVULNERABLE_TIME == 1000

BULLET_WIDTH == Px(6)
BULLET_HEIGHT == Px(12)
BULLET_SPEED == Px(10)
BULLET_DAMAGE == 20
BULLET_LIFETIME == 2000

\* Object.entries(ZOMBIE_CONFIGS) enumerates the types in this order.
ZombieTypeOrder == <<"standard", "runner", "tank", "spitter", "exploder">>

ZOMBIE_CONFIGS ==
  [ standard |-> [health |-> 60, speed |-> 120, damage |-> 10, radius |-> Px(18),
                  attackCooldown |-> 1000, spawnWeight |-> 50],
    runner   |-> [health |-> 30, speed |-> 350, damage |-> 8, radius |-> Px(15),
                  attackCooldown |-> 800, spawnWeight |-> 25],
    tank     |-> [health |-> 200, speed |-> 60, damage |-> 25, radius |-> Px(28),
                  attackCooldown |-> 1500, spawnWeight |-> 10],
    spitter  |-> [health |-> 45, speed |-> 90, damage |-> 12, radius |-> Px(16),
                  attackCooldown |-> 2000, spitCooldown |-> 2500, spawnWeight |-> 10],
    exploder |-> [health |-> 40, speed |-> 200, damage |-> 35, radius |-> Px(20),
                  explosionRadius |-> Px(100), attackCooldown |-> 500,
                  spawnWeight |-> 5] ]

BASE_ZOMBIES_PER_WAVE == 10
WAVE_ZOMBIE_INCREASE == 5
WAVE_DELAY == 5000
ZOMBIE_SPAWN_INTERVAL == 800

MUZZLE_FLASH_LIFETIME == 50
BLOOD_PARTICLE_COUNT == 8
BLOOD_PARTICLE_LIFETIME == 800
EXPLOSION_LIFETIME == 500

DEATH_RESPAWN_DELAY == 2000

NUM_LANES == 2
LANE_WIDTH == CANVAS_WIDTH \div NUM_LANES
GATE_WIDTH == (LANE_WIDTH * 8) \div 10
GATE_HEIGHT == Px(60)
GATE_SPAWN_INTERVAL == 4000
GATE_SPEED == Px(2)
INITIAL_SHOOTER_COUNT == 1

---------------------------------------------------------------------------
(* utils.ts *)

\* distance(x1, y1, x2, y2) < r for the offset (dx, dy) = (x2 - x1, y2 - y1),
\* decided on the squares.  A coordinate offset of r or more already makes the
\* distance r or more, which also keeps the squares small.
DistanceLess(dx, dy, r) ==
  /\ Abs(dx) < r
  /\ Abs(dy) < r
  /\ dx * dx + dy * dy < r * r

checkRectCollision(a, b) ==
  /\ a.x < b.x + b.width
  /\ a.x + a.width > b.x
  /\ a.y < b.y + b.height
  /\ a.y + a.height > b.y

checkRectCircleCollision(rect, circleX, circleY, radius) ==
  LET closestX == Max(rect.x, Min(circleX, rect.x + rect.width))
      closestY == Max(rect.y, Min(circleY, rect.y + rect.height))
  IN  DistanceLess(closestX - circleX, closestY - circleY, radius)

checkCircleCollision(x1, y1, r1, x2, y2, r2) ==
  DistanceLess(x2 - x1, y2 - y1, r1 + r2)

\* The loop of weightedRandomZombieType as it would be with `random < 0`: the
\* variant that the closed upper end of the band of a type rules out.
RECURSIVE WeightedPickStrict(_, _, _)
WeightedPickStrict(weights, i, random100) ==
  IF i > Len(ZombieTypeOrder) THEN ZombieTypeOrder[1]
  ELSE LET rest == random100 - weights[ZombieTypeOrder[i]] * 100
       IN  IF rest < 0 THEN ZombieTypeOrder[i]
           ELSE WeightedPickStrict(weights, i + 1, rest)

\* The loop of weightedRandomZombieType from entry i on: `random100` is the
\* running remainder times 100.
RECURSIVE WeightedPick(_, _, _)
WeightedPick(weights, i, random100) ==
  IF i > Len(ZombieTypeOrder) THEN ZombieTypeOrder[1]
  ELSE LET rest == random100 - weights[ZombieTypeOrder[i]] * 100
       IN  IF rest <= 0 THEN ZombieTypeOrder[i]
           ELSE WeightedPick(weights, i + 1, rest)

RECURSIVE SumWeights(_, _)
SumWeights(weights, i) ==
  IF i > Len(ZombieTypeOrder) THEN 0
  ELSE weights[ZombieTypeOrder[i]] + SumWeights(weights, i + 1)

\* weightedRandomZombieType(weights) when Math.random() returns k/100.
weightedRandomZombieType(weights, k) ==
  WeightedPick(weights, 1, k * SumWeights(weights, 1))

---------------------------------------------------------------------------
(* entities.ts *)

createPlayer ==
  [ x |-> CANVAS_WIDTH \div 2 - PLAYER_WIDTH \div 2,
    y |-> CANVAS_HEIGHT - PLAYER_HEIGHT - Px(20),
    width |-> PLAYER_WIDTH,
    height |-> PLAYER_HEIGHT,
    health |-> PLAYER_MAX_HEALTH,
    maxHealth |-> PLAYER_MAX_HEALTH,
    speed |-> PLAYER_SPEED,
    lastShootTime |-> 0,
    shootInterval |-> PLAYER_SHOOT_INTERVAL,
    damageFlashTime |-> 0,
    invulnerableTime |-> 0,
    shooterCount |-> INITIAL_SHOOTER_COUNT ]

\* createBullet(x, y, rotation, currentTime); `dir` is (cos, sin) of the rotation
\* in thousandths.  `id` and `from` are history fields: the serial number of the
\* bullet and who fired it.
createBullet(x, y, dir, currentTime, id, from) ==
  [ x |-> x,
    y |-> y,
    width |-> BULLET_WIDTH,
    height |-> BULLET_HEIGHT,
    velocityX |-> Trunc(dir.c * BULLET_SPEED, 1000),
    velocityY |-> Trunc(dir.s * BULLET_SPEED, 1000),
    damage |-> BULLET_DAMAGE,
    lifetime |-> BULLET_LIFETIME,
    createdAt |-> currentTime,
    id |-> id,
    from |-> from ]

\* createZombie as it would be without `+ config.radius` in spawnX: the
\* variant that the inset of the spawn band rules out.
createZombieAtEdge(type, lane, xDraw, id) ==
  LET config == ZOMBIE_CONFIGS[type]
      laneWidth == CANVAS_WIDTH \div 2
      spawnX == lane * laneWidth + (xDraw * (laneWidth - config.radius * 2)) \div 100
      base == [ x |-> spawnX,
                y |-> -config.radius * 2,
                type |-> type,
                health |-> config.health,
                maxHealth |-> config.health,
                speed |-> config.speed,
                damage |-> config.damage,
                radius |-> config.radius,
                velocityX |-> 0,
                velocityY |-> 0,
                lastAttackTime |-> 0,
                attackCooldown |-> config.attackCooldown,
                bloodParticles |-> << >>,
                id |-> id ]
  IN  CASE type = "spitter" ->
             [spitCooldown |-> config.spitCooldown, lastSpitTime |-> 0] @@ base
        [] type = "exploder" ->
             [explosionRadius |-> config.explosionRadius] @@ base
        [] OTHER -> base

\* createZombie(type, lane) with the lane given.  xDraw is the Math.random() of
\* the spawn position; `id` is a history field, the serial number of the zombie.
createZombie(type, lane, xDraw, id) ==
  LET config == ZOMBIE_CONFIGS[type]
      numLanes == 2
      laneWidth == CANVAS_WIDTH \div numLanes
      laneStart == lane * laneWidth
      spawnX == laneStart + (xDraw * (laneWidth - config.radius * 2)) \div 100
                  + config.radius
      base == [ x |-> spawnX,
                y |-> -config.radius * 2,
                type |-> type,
                health |-> config.health,
                maxHealth |-> config.health,
                speed |-> config.speed,
                damage |-> config.damage,
                radius |-> config.radius,
                velocityX |-> 0,
                velocityY |-> 0,
                lastAttackTime |-> 0,
                attackCooldown |-> config.attackCooldown,
                bloodParticles |-> << >>,
                id |-> id ]
  IN  CASE type = "spitter" ->
             [spitCooldown |-> config.spitCooldown, lastSpitTime |-> 0] @@ base
        [] type = "exploder" ->
             [explosionRadius |-> config.explosionRadius] @@ base
        [] OTHER -> base

\* The weights createRandomZombie collects from ZOMBIE_CONFIGS.
SpawnWeights == [t \in DOMAIN ZOMBIE_CONFIGS |-> ZOMBIE_CONFIGS[t].spawnWeight]

\* createRandomZombie(): three values of Math.random() are consumed, by the
\* weighted choice of the type, by the choice of the lane (createZombie called
\* without a lane) and by the spawn position.
createRandomZombie(typeDraw, laneDraw, xDraw, id) ==
  LET selectedType == weightedRandomZombieType(SpawnWeights, typeDraw)
      selectedLane == (laneDraw * 2) \div 100
  IN  createZombie(selectedType, selectedLane, xDraw, id)

updateZombieAI(zombie) ==
  LET vy == CASE zombie.type = "spitter" -> (zombie.speed * 7) \div 10
              [] zombie.type = "exploder" -> (zombie.speed * 13) \div 10
              [] zombie.type = "runner" -> (zombie.speed * 12) \div 10
              [] OTHER -> zombie.speed
  IN  [zombie EXCEPT !.velocityX = 0, !.velocityY = vy,
                     !.x = @ + 0, !.y = @ + vy]

\* damageZombie as it would be without `zombie.health = 0`: the variant that
\* the range of a zombie's health rules out.
damageZombieUnfloored(zombie, damage, now) ==
  LET health == zombie.health - damage
  IN  IF health <= 0
      THEN [zombie |-> [deathTime |-> now] @@ [zombie EXCEPT !.health = health],
            died |-> TRUE]
      ELSE [zombie |-> [zombie EXCEPT !.health = health], died |-> FALSE]

\* damageZombie(zombie, damage): the zombie after the call and the returned flag.
\* `now` is the value of Date.now().
damageZombie(zombie, damage, now) ==
  LET health == zombie.health - damage
  IN  IF health <= 0
      THEN [zombie |-> [deathTime |-> now] @@ [zombie EXCEPT !.health = 0],
            died |-> TRUE]
      ELSE [zombie |-> [zombie EXCEPT !.health = health], died |-> FALSE]

\* createGate(lane, type, value); `id` is a history field, the serial number of
\* the gate.
createGate(lane, type, value, id) ==
  LET numLanes == 2
      laneWidth == CANVAS_WIDTH \div numLanes
      laneStart == lane * laneWidth
      gateX == laneStart + (laneWidth - GATE_WIDTH) \div 2
  IN  [ x |-> gateX,
        y |-> -GATE_HEIGHT - Px(20),
        width |-> GATE_WIDTH,
        height |-> GATE_HEIGHT,
        lane |-> lane,
        type |-> type,
        value |-> value,
        active |-> TRUE,
        passed |-> FALSE,
        id |-> id ]

---------------------------------------------------------------------------
(* effects.ts: class EffectsManager.  The fields of an effect that only the  *)
(* renderer reads and that are drawn at random (the size of a flash, the     *)
(* position, velocity and size of a blood particle) are left out.            *)

RemoveAt(seq, i) == [k \in 1..(Len(seq) - 1) |-> IF k < i THEN seq[k] ELSE seq[k + 1]]

createMuzzleFlash(muzzleFlashes, x, y) ==
  Append(muzzleFlashes, [x |-> x, y |-> y, lifetime |-> MUZZLE_FLASH_LIFETIME])

\* The particles createBloodParticles(x, y) returns.
createBloodParticles ==
  [i \in 1..BLOOD_PARTICLE_COUNT |-> [lifetime |-> BLOOD_PARTICLE_LIFETIME]]

\* `now` is the value of Date.now().
createExplosion(explosions, x, y, maxRadius, now) ==
  Append(explosions, [x |-> x, y |-> y, radius |-> 0, maxRadius |-> maxRadius,
                      lifetime |-> EXPLOSION_LIFETIME, createdAt |-> now])

\* The test of both lifetime countdowns: an effect is removed at lifetime <= 0.
StillAlive(f) == ~(f.lifetime <= 0)

updateMuzzleFlashes(muzzleFlashes, deltaTime) ==
  SelectSeq([i \in 1..Len(muzzleFlashes) |->
               [muzzleFlashes[i] EXCEPT !.lifetime = @ - deltaTime]],
            StillAlive)

updateExplosions(explosions, currentTime) ==
  LET Kept(e) == ~(currentTime - e.createdAt >= e.lifetime)
      Grown(e) == [e EXCEPT !.radius =
                      Trunc(e.maxRadius * (currentTime - e.createdAt), e.lifetime)]
  IN  [i \in 1..Len(SelectSeq(explosions, Kept)) |->
         Grown(SelectSeq(explosions, Kept)[i])]

updateBloodParticles(particles, deltaTime) ==
  SelectSeq([i \in 1..Len(particles) |->
               [particles[i] EXCEPT !.lifetime = @ - deltaTime]],
            StillAlive)

\* EffectsManager.clear() on the state record of the game.
clear(s) == [s EXCEPT !.muzzleFlashes = << >>, !.explosions = << >>]

---------------------------------------------------------------------------
(* game.ts: class Game.  The methods are operators on a record s of the      *)
(* fields of the game object:                                                *)
(*   player, bullets, zombies, gates, gameState, muzzleFlashes, explosions   *)
(*   (the two collections of this.effects), keys, lastTime,                  *)
(*   lastZombieSpawnTime, lastGateSpawnTime, deathTime, isDead.              *)
(* Beside them s carries what a frame needs from outside and what the        *)
(* properties need to see of it:                                             *)
(*   dateNow  the value Date.now() returns during the frame,                 *)
(*   serial   the numbers of zombies, gates and bullets created so far,      *)
(*   obs      the record of what the frame did (history; nothing reads it),  *)
(*   past     what earlier frames did: the frame time of the player's death, *)
(*            the frame time of the last gate spawn (0, the construction,    *)
(*            before the first), the gates whose effect was applied.         *)

\* obs with `v` appended to the list obs[f].
Note(s, f, v) == [s EXCEPT !.obs[f] = Append(@, v)]

handlePlayerDeath(s) ==
  [s EXCEPT !.isDead = TRUE, !.deathTime = s.dateNow, !.past.diedAt = s.obs.time]

\* damagePlayer as it would be without its first line: the variant that the
\* invulnerability of the player rules out.
damagePlayerAlways(s, damage) ==
  LET hurt == Note([s EXCEPT !.player.health = @ - damage,
                             !.player.damageFlashTime = 200,
                             !.player.invulnerableTime = PLAYER_INVULNERABLE_TIME],
                   "hits",
                   [damage |-> damage,
                    invulnerableTime |-> s.player.invulnerableTime,
                    before |-> s.player.health,
                    after |-> s.player.health - damage])
  IN  IF hurt.player.health <= 0 THEN handlePlayerDeath(hurt) ELSE hurt

\* damagePlayer as it would be if a hit did not start the invulnerability: the
\* variant that the single loss of health in a tick rules out.
damagePlayerExposed(s, damage) ==
  LET Seen(after) == Note(after, "hits",
                          [damage |-> damage,
                           invulnerableTime |-> s.player.invulnerableTime,
                           before |-> s.player.health,
                           after |-> after.player.health])
  IN  IF s.player.invulnerableTime > 0 THEN Seen(s)
      ELSE LET hurt == Seen([s EXCEPT !.player.health = @ - damage,
                                      !.player.damageFlashTime = 200])
           IN  IF hurt.player.health <= 0 THEN handlePlayerDeath(hurt) ELSE hurt

damagePlayer(s, damage) ==
  LET Seen(after) == Note(after, "hits",
                          [damage |-> damage,
                           invulnerableTime |-> s.player.invulnerableTime,
                           before |-> s.player.health,
                           after |-> after.player.health])
  IN  IF s.player.invulnerableTime > 0 THEN Seen(s)
      ELSE LET hurt == Seen([s EXCEPT !.player.health = @ - damage,
                                      !.player.damageFlashTime = 200,
                                      !.player.invulnerableTime =
                                         PLAYER_INVULNERABLE_TIME])
           IN  IF hurt.player.health <= 0 THEN handlePlayerDeath(hurt) ELSE hurt

\* this.player.x + this.player.width / 2 and the same for y.
PlayerCenterX(s) == s.player.x + s.player.width \div 2
PlayerCenterY(s) == s.player.y + s.player.height \div 2

\* zombie.explosionRadius || 100
ExplosionRadiusOf(zombie) ==
  IF "explosionRadius" \in DOMAIN zombie /\ zombie.explosionRadius # 0
  THEN zombie.explosionRadius ELSE Px(100)

\* The loop of handleExploderDeath as it would be without the test of the
\* distance: the variant that the reach of an explosion rules out.
SplashEveryZombie(zombies, j, explosionRadius, now) ==
  [k \in 1..Len(zombies) |->
     IF k # j THEN damageZombie(zombies[k], 50, now).zombie ELSE zombies[k]]

\* The loop of handleExploderDeath over the other zombies: j is the position of
\* the exploding zombie in this.zombies.
SplashZombies(zombies, j, explosionRadius, now) ==
  [k \in 1..Len(zombies) |->
     IF k # j /\ checkCircleCollision(zombies[j].x, zombies[j].y, explosionRadius,
                                      zombies[k].x, zombies[k].y, zombies[k].radius)
     THEN damageZombie(zombies[k], 50, now).zombie
     ELSE zombies[k]]

\* What obs records of the zombies around an explosion.
Bodies(zombies) ==
  [k \in 1..Len(zombies) |->
     [id |-> zombies[k].id, type |-> zombies[k].type,
      x |-> zombies[k].x, y |-> zombies[k].y,
      radius |-> zombies[k].radius, health |-> zombies[k].health]]

\* handleExploderDeath as it would be if an exploder that the splash leaves at
\* health 0 exploded in its turn: the variant that the absence of chains rules
\* out.
handleExploderDeathChained(s, j, cause) ==
  LET zombie == s.zombies[j]
      explosionRadius == ExplosionRadiusOf(zombie)
      boom == [s EXCEPT !.explosions =
                 createExplosion(@, zombie.x, zombie.y, explosionRadius, s.dateNow)]
      inRange == checkCircleCollision(zombie.x, zombie.y, explosionRadius,
                                      PlayerCenterX(s), PlayerCenterY(s),
                                      s.player.width \div 2)
      burnt == IF inRange THEN damagePlayer(boom, zombie.damage) ELSE boom
      after == SplashZombies(burnt.zombies, j, explosionRadius, s.dateNow)
      Chained(z) == z.type = "exploder" /\ z.health = 0 /\ z.id # zombie.id
      chain == SelectSeq(after, Chained)
  IN  Note([burnt EXCEPT !.zombies = after,
                         !.explosions = @ \o
                            [n \in 1..Len(chain) |->
                               [x |-> chain[n].x, y |-> chain[n].y, radius |-> 0,
                                maxRadius |-> ExplosionRadiusOf(chain[n]),
                                lifetime |-> EXPLOSION_LIFETIME,
                                createdAt |-> s.dateNow]]],
           "blasts",
           [id |-> zombie.id, cause |-> cause, at |-> j,
            radius |-> explosionRadius,
            before |-> Bodies(s.zombies), after |-> Bodies(after)])

\* handleExploderDeath(zombie) for the zombie at position j of this.zombies.
handleExploderDeath(s, j, cause) ==
  LET zombie == s.zombies[j]
      explosionRadius == ExplosionRadiusOf(zombie)
      boom == [s EXCEPT !.explosions =
                 createExplosion(@, zombie.x, zombie.y, explosionRadius, s.dateNow)]
      inRange == checkCircleCollision(zombie.x, zombie.y, explosionRadius,
                                      PlayerCenterX(s), PlayerCenterY(s),
                                      s.player.width \div 2)
      burnt == IF inRange THEN damagePlayer(boom, zombie.damage) ELSE boom
      after == SplashZombies(burnt.zombies, j, explosionRadius, s.dateNow)
  IN  Note([burnt EXCEPT !.zombies = after], "blasts",
           [id |-> zombie.id, cause |-> cause, at |-> j,
            radius |-> explosionRadius,
            before |-> Bodies(s.zombies), after |-> Bodies(after)])

\* handleZombieDeath(zombie) for the zombie at position j of this.zombies.
handleZombieDeath(s, j) ==
  LET blown == IF s.zombies[j].type = "exploder"
               THEN handleExploderDeath(s, j, "death") ELSE s
  IN  Note([blown EXCEPT !.zombies[j].bloodParticles = @ \o createBloodParticles],
           "deaths", s.zombies[j].id)

\* sin and cos, in thousandths, of a small angle o in thousandths of a radian
\* (|o| <= pi/16), by the first terms of their series.
SinM(o) == o - Trunc(o * o * o, 6000000)
CosM(o) == 1000 - (o * o) \div 2000

\* shootBullet: the i-th bullet of a shot of bulletsToShoot bullets.  The player
\* faces up (rotation -pi/2), so the cosine and sine of rotation + offset are the
\* sine and minus the cosine of the offset; spreadAngle is pi/8 = 392699e-6.
RECURSIVE ShootFrom(_, _, _, _)
ShootFrom(s, i, bulletsToShoot, currentTime) ==
  IF i >= bulletsToShoot THEN s
  ELSE LET offset == Trunc((2 * i - (bulletsToShoot - 1)) * 392699,
                           2 * Max(1, bulletsToShoot - 1) * 1000)
           dir == [c |-> SinM(offset), s |-> -CosM(offset)]
           gunLength == Px(25)
           gunX == PlayerCenterX(s) + Trunc(dir.c * gunLength, 1000)
           gunY == PlayerCenterY(s) + Trunc(dir.s * gunLength, 1000)
           bullet == createBullet(gunX, gunY, dir, currentTime,
                                  s.serial.bullets + 1, "player")
       IN  ShootFrom([s EXCEPT !.bullets = Append(@, bullet),
                               !.muzzleFlashes = createMuzzleFlash(@, gunX, gunY),
                               !.serial.bullets = @ + 1],
                     i + 1, bulletsToShoot, currentTime)

\* shootBullet as it would be without Math.min(shooterCount, 10): the variant
\* that the cap of a shot rules out.
shootBulletUncapped(s, currentTime) ==
  Note(ShootFrom(s, 0, s.player.shooterCount, currentTime),
       "shots", s.player.shooterCount)

shootBullet(s, currentTime) ==
  Note(ShootFrom(s, 0, Min(s.player.shooterCount, 10), currentTime),
       "shots", Min(s.player.shooterCount, 10))

updatePlayerUnbounded(s, currentTime, deltaTime) ==
  LET p == s.player
      invulnerableTime == IF p.invulnerableTime > 0
                          THEN p.invulnerableTime - deltaTime ELSE p.invulnerableTime
      damageFlashTime == IF p.damageFlashTime > 0
                         THEN p.damageFlashTime - deltaTime ELSE p.damageFlashTime
      x1 == IF "a" \in s.keys \/ "arrowleft" \in s.keys THEN p.x - p.speed ELSE p.x
      x2 == IF "d" \in s.keys \/ "arrowright" \in s.keys THEN x1 + p.speed ELSE x1
      moved == [s EXCEPT !.player.invulnerableTime = invulnerableTime,
                         !.player.damageFlashTime = damageFlashTime,
                         !.player.x = x2,
                         !.player.y = CANVAS_HEIGHT - p.height - Px(20)]
  IN  IF currentTime - p.lastShootTime > p.shootInterval
      THEN [shootBullet(moved, currentTime) EXCEPT !.player.lastShootTime = currentTime]
      ELSE moved

updatePlayer(s, currentTime, deltaTime) ==
  LET p == s.player
      invulnerableTime == IF p.invulnerableTime > 0
                          THEN p.invulnerableTime - deltaTime ELSE p.invulnerableTime
      damageFlashTime == IF p.damageFlashTime > 0
                         THEN p.damageFlashTime - deltaTime ELSE p.damageFlashTime
      x1 == IF "a" \in s.keys \/ "arrowleft" \in s.keys THEN p.x - p.speed ELSE p.x
      x2 == IF "d" \in s.keys \/ "arrowright" \in s.keys THEN x1 + p.speed ELSE x1
      x3 == IF x2 < 0 THEN 0 ELSE x2
      x4 == IF x3 > CANVAS_WIDTH - p.width THEN CANVAS_WIDTH - p.width ELSE x3
      moved == [s EXCEPT !.player.invulnerableTime = invulnerableTime,
                         !.player.damageFlashTime = damageFlashTime,
                         !.player.x = x4,
                         !.player.y = CANVAS_HEIGHT - p.height - Px(20)]
  IN  IF currentTime - p.lastShootTime > p.shootInterval
      THEN [shootBullet(moved, currentTime) EXCEPT !.player.lastShootTime = currentTime]
      ELSE moved

\* updateBullets as it would be without the test of the age: the variant that
\* BULLET_LIFETIME rules out.
updateBulletsAgeless(s, currentTime) ==
  LET Moved(b) == [b EXCEPT !.x = @ + b.velocityX, !.y = @ + b.velocityY]
      Kept(b) == ~ \/ b.x < -Px(50)
                   \/ b.x > CANVAS_WIDTH + Px(50)
                   \/ b.y < -Px(50)
                   \/ b.y > CANVAS_HEIGHT + Px(50)
  IN  [s EXCEPT !.bullets =
         SelectSeq([i \in 1..Len(s.bullets) |-> Moved(s.bullets[i])], Kept)]

updateBullets(s, currentTime) ==
  LET Moved(b) == [b EXCEPT !.x = @ + b.velocityX, !.y = @ + b.velocityY]
      Kept(b) == ~ \/ b.x < -Px(50)
                   \/ b.x > CANVAS_WIDTH + Px(50)
                   \/ b.y < -Px(50)
                   \/ b.y > CANVAS_HEIGHT + Px(50)
                   \/ currentTime - b.createdAt > BULLET_LIFETIME
  IN  [s EXCEPT !.bullets =
         SelectSeq([i \in 1..Len(s.bullets) |-> Moved(s.bullets[i])], Kept)]

\* The integer square root, by Newton's iteration from above.
RECURSIVE SqrtFrom(_, _)
SqrtFrom(n, r) ==
  LET next == (r + n \div r) \div 2
  IN  IF next >= r THEN r ELSE SqrtFrom(n, next)

ISqrt(n) == IF n = 0 THEN 0 ELSE SqrtFrom(n, n)

\* (cos, sin) of Math.atan2(dy, dx) in thousandths, from the offsets cut to
\* tenths of a pixel; atan2(0, 0) is 0.
Direction(dx, dy) ==
  LET ex == Trunc(dx, 10)
      ey == Trunc(dy, 10)
      len == ISqrt(ex * ex + ey * ey)
  IN  IF len = 0 THEN [c |-> 1000, s |-> 0]
      ELSE [c |-> Trunc(ex * 1000, len), s |-> Trunc(ey * 1000, len)]

\* zombieSpitterAttack as it would be if the projectile were created below the
\* spitter, clear of its body: the variant that the hit in the tick of the
\* spit rules out.
zombieSpitterAttackClear(s, zombie, targetX, targetY, currentTime) ==
  LET dir == Direction(targetX - zombie.x, targetY - zombie.y)
      made == createBullet(zombie.x, zombie.y + 3 * zombie.radius, dir, currentTime,
                           s.serial.bullets + 1, zombie.id)
      bullet == [made EXCEPT !.damage = zombie.damage,
                             !.velocityX = Trunc(@ * 5, 10),
                             !.velocityY = Trunc(@ * 5, 10)]
  IN  [s EXCEPT !.bullets = Append(@, bullet), !.serial.bullets = @ + 1]

zombieSpitterAttack(s, zombie, targetX, targetY, currentTime) ==
  LET dir == Direction(targetX - zombie.x, targetY - zombie.y)
      made == createBullet(zombie.x, zombie.y, dir, currentTime,
                           s.serial.bullets + 1, zombie.id)
      bullet == [made EXCEPT !.damage = zombie.damage,
                             !.velocityX = Trunc(@ * 5, 10),
                             !.velocityY = Trunc(@ * 5, 10)]
  IN  [s EXCEPT !.bullets = Append(@, bullet), !.serial.bullets = @ + 1]

\* The loop of updateZombies as it would be without `this.zombies.splice(i, 1)`:
\* the variant that the removal of an escaped zombie rules out.
RECURSIVE UpdateZombiesFromStaying(_, _, _, _)
UpdateZombiesFromStaying(s, i, currentTime, deltaTime) ==
  IF i < 1 THEN s
  ELSE LET walked == updateZombieAI(s.zombies[i])
           zombie == [walked EXCEPT !.bloodParticles =
                         updateBloodParticles(@, deltaTime)]
           spits == /\ zombie.type = "spitter"
                    /\ \/ "lastSpitTime" \notin DOMAIN zombie
                       \/ currentTime - zombie.lastSpitTime >
                            (IF "spitCooldown" \in DOMAIN zombie /\ zombie.spitCooldown # 0
                             THEN zombie.spitCooldown ELSE 2500)
           s1 == [s EXCEPT !.zombies[i] = zombie]
           s2 == IF spits
                 THEN [zombieSpitterAttack(s1, zombie, PlayerCenterX(s), PlayerCenterY(s),
                                           currentTime)
                         EXCEPT !.zombies[i] = [lastSpitTime |-> currentTime] @@ zombie]
                 ELSE s1
           s3 == IF zombie.y > CANVAS_HEIGHT + zombie.radius
                 THEN Note(damagePlayer(s2, 5), "escapes", zombie.id)
                 ELSE s2
       IN  UpdateZombiesFromStaying(s3, i - 1, currentTime, deltaTime)

\* The body of the loop of updateZombies from position i down to the first.  The
\* player does not move during the loop, so the centre computed before it is
\* PlayerCenterX(s), PlayerCenterY(s) throughout.
RECURSIVE UpdateZombiesFrom(_, _, _, _)
UpdateZombiesFrom(s, i, currentTime, deltaTime) ==
  IF i < 1 THEN s
  ELSE LET walked == updateZombieAI(s.zombies[i])
           zombie == [walked EXCEPT !.bloodParticles =
                         updateBloodParticles(@, deltaTime)]
           spits == /\ zombie.type = "spitter"
                    /\ \/ "lastSpitTime" \notin DOMAIN zombie
                       \/ currentTime - zombie.lastSpitTime >
                            (IF "spitCooldown" \in DOMAIN zombie /\ zombie.spitCooldown # 0
                             THEN zombie.spitCooldown ELSE 2500)
           s1 == [s EXCEPT !.zombies[i] = zombie]
           s2 == IF spits
                 THEN [zombieSpitterAttack(s1, zombie, PlayerCenterX(s), PlayerCenterY(s),
                                           currentTime)
                         EXCEPT !.zombies[i] = [lastSpitTime |-> currentTime] @@ zombie]
                 ELSE s1
           s3 == IF zombie.y > CANVAS_HEIGHT + zombie.radius
                 THEN [Note(damagePlayer(s2, 5), "escapes", zombie.id)
                         EXCEPT !.zombies = RemoveAt(@, i)]
                 ELSE s2
       IN  UpdateZombiesFrom(s3, i - 1, currentTime, deltaTime)

updateZombies(s, currentTime, deltaTime) ==
  UpdateZombiesFrom(s, Len(s.zombies), currentTime, deltaTime)

\* updateZombieSpawning as it would be without
\* `this.gameState.zombiesSpawned < this.gameState.zombiesInWave`: the variant
\* that the quota of the wave rules out.
updateZombieSpawningUnbounded(s, currentTime, draws) ==
  IF ~s.gameState.waveActive THEN s
  ELSE IF currentTime - s.lastZombieSpawnTime > ZOMBIE_SPAWN_INTERVAL
       THEN LET zombie == createRandomZombie(draws[1], draws[2], draws[3],
                                             s.serial.zombies + 1)
            IN  Note([s EXCEPT !.zombies = Append(@, zombie),
                               !.gameState.zombiesSpawned = @ + 1,
                               !.lastZombieSpawnTime = currentTime,
                               !.serial.zombies = @ + 1],
                     "spawns", zombie.id)
       ELSE s

\* `draws` holds the values Math.random() returns to createRandomZombie.
updateZombieSpawning(s, currentTime, draws) ==
  IF ~s.gameState.waveActive THEN s
  ELSE IF /\ s.gameState.zombiesSpawned < s.gameState.zombiesInWave
          /\ currentTime - s.lastZombieSpawnTime > ZOMBIE_SPAWN_INTERVAL
       THEN LET zombie == createRandomZombie(draws[1], draws[2], draws[3],
                                             s.serial.zombies + 1)
            IN  Note([s EXCEPT !.zombies = Append(@, zombie),
                               !.gameState.zombiesSpawned = @ + 1,
                               !.lastZombieSpawnTime = currentTime,
                               !.serial.zombies = @ + 1],
                     "spawns", zombie.id)
       ELSE s

completeWave(s, currentTime) ==
  Note([s EXCEPT !.gameState.waveActive = FALSE,
                 !.gameState.waveStartTime = currentTime,
                 !.gameState.explorationMode = TRUE,
                 !.player.health = Min(@ + 20, s.player.maxHealth)],
       "waves", "complete")

\* startNextWave as it would be if the quota were computed before
\* `this.gameState.currentWave++`: the variant that the order of its first two
\* statements rules out.
startNextWaveStale(s, currentTime) ==
  Note([s EXCEPT !.gameState.currentWave = @ + 1,
                 !.gameState.zombiesInWave =
                    BASE_ZOMBIES_PER_WAVE
                      + (s.gameState.currentWave - 1) * WAVE_ZOMBIE_INCREASE,
                 !.gameState.zombiesSpawned = 0,
                 !.gameState.zombiesKilled = 0,
                 !.gameState.waveActive = TRUE,
                 !.gameState.explorationMode = FALSE,
                 !.gameState.waveStartTime = currentTime,
                 !.lastZombieSpawnTime = currentTime],
       "waves", "start")

startNextWave(s, currentTime) ==
  Note([s EXCEPT !.gameState.currentWave = @ + 1,
                 !.gameState.zombiesInWave =
                    BASE_ZOMBIES_PER_WAVE
                      + ((s.gameState.currentWave + 1) - 1) * WAVE_ZOMBIE_INCREASE,
                 !.gameState.zombiesSpawned = 0,
                 !.gameState.zombiesKilled = 0,
                 !.gameState.waveActive = TRUE,
                 !.gameState.explorationMode = FALSE,
                 !.gameState.waveStartTime = currentTime,
                 !.lastZombieSpawnTime = currentTime],
       "waves", "start")

\* updateWaveSystem as it would be without `this.zombies.length === 0`: the
\* variant that the condition of a complete wave rules out.
updateWaveSystemEarly(s, currentTime) ==
  LET s1 == IF /\ s.gameState.waveActive
               /\ s.gameState.zombiesSpawned >= s.gameState.zombiesInWave
            THEN completeWave(s, currentTime) ELSE s
  IN  IF /\ ~s1.gameState.waveActive
         /\ currentTime - s1.gameState.waveStartTime > WAVE_DELAY
      THEN startNextWave(s1, currentTime) ELSE s1

\* updateWaveSystem as it would be without its second `if`: the variant that
\* the start of the next wave rules out.
updateWaveSystemResting(s, currentTime) ==
  IF /\ s.gameState.waveActive
     /\ s.gameState.zombiesSpawned >= s.gameState.zombiesInWave
     /\ Len(s.zombies) = 0
  THEN completeWave(s, currentTime) ELSE s

updateWaveSystem(s, currentTime) ==
  LET s1 == IF /\ s.gameState.waveActive
               /\ s.gameState.zombiesSpawned >= s.gameState.zombiesInWave
               /\ Len(s.zombies) = 0
            THEN completeWave(s, currentTime) ELSE s
  IN  IF /\ ~s1.gameState.waveActive
         /\ currentTime - s1.gameState.waveStartTime > WAVE_DELAY
      THEN startNextWave(s1, currentTime) ELSE s1

updateGates(s) ==
  LET Moved(g) == [g EXCEPT !.y = @ + GATE_SPEED]
      Kept(g) == ~(g.y > CANVAS_HEIGHT + g.height)
  IN  [s EXCEPT !.gates =
         SelectSeq([i \in 1..Len(s.gates) |-> Moved(s.gates[i])], Kept)]

\* `draws` holds the four values of Math.random(), in the order of the calls.
updateGateSpawning(s, currentTime, draws) ==
  IF currentTime - s.lastGateSpawnTime > GATE_SPAWN_INTERVAL
  THEN LET leftLaneType == IF draws[1] > 50 THEN "add" ELSE "multiply"
           rightLaneType == IF draws[2] > 50 THEN "add" ELSE "multiply"
           leftValue == IF leftLaneType = "add"
                        THEN (draws[3] * 3) \div 100 + 1
                        ELSE (draws[3] * 2) \div 100 + 2
           rightValue == IF rightLaneType = "add"
                         THEN (draws[4] * 3) \div 100 + 1
                         ELSE (draws[4] * 2) \div 100 + 2
           left == createGate(0, leftLaneType, leftValue, s.serial.gates + 1)
           right == createGate(1, rightLaneType, rightValue, s.serial.gates + 2)
       IN  Note([s EXCEPT !.gates = Append(Append(@, left), right),
                          !.lastGateSpawnTime = currentTime,
                          !.serial.gates = @ + 2,
                          !.past.gateAt = currentTime],
                "gatePairs", left.id)
  ELSE s

\* The position of the first zombie, from the last down, that the bullet
\* overlaps; 0 if there is none.
RECURSIVE FirstHit(_, _, _)
FirstHit(bullet, zombies, j) ==
  IF j < 1 THEN 0
  ELSE IF checkRectCircleCollision(bullet, zombies[j].x, zombies[j].y,
                                   zombies[j].radius)
       THEN j ELSE FirstHit(bullet, zombies, j - 1)

\* The bullet loop of checkCollisions as it would be without
\* `this.bullets.splice(i, 1)`: the variant that the single hit of a bullet
\* rules out.
RECURSIVE BulletsFromKept(_, _)
BulletsFromKept(s, i) ==
  IF i < 1 THEN s
  ELSE LET bullet == s.bullets[i]
           j == FirstHit(bullet, s.zombies, Len(s.zombies))
           hit == damageZombie(s.zombies[j], bullet.damage, s.dateNow)
           bled == [s EXCEPT !.zombies[j] =
                      [hit.zombie EXCEPT !.bloodParticles = @ \o createBloodParticles]]
           dead == [handleZombieDeath(bled, j) EXCEPT
                      !.zombies = RemoveAt(@, j),
                      !.gameState.zombiesKilled = @ + 1]
           s1 == IF hit.died THEN dead ELSE bled
       IN  IF j = 0 THEN BulletsFromKept(s, i - 1)
           ELSE BulletsFromKept(
                  Note(s1, "bulletHits",
                       [bullet |-> bullet.id, from |-> bullet.from,
                        zombie |-> s.zombies[j].id, damage |-> bullet.damage,
                        before |-> s.zombies[j].health, died |-> hit.died]),
                  i - 1)

\* The bullet loop of checkCollisions as it would be with a test of a zombie's
\* projectile (a bullet that carries the damage of a zombie) against the
\* player: the variant that the single target of the bullets rules out.
RECURSIVE BulletsFromAnyTarget(_, _)
BulletsFromAnyTarget(s, i) ==
  IF i < 1 THEN s
  ELSE LET bullet == s.bullets[i]
           struck == /\ bullet.damage # BULLET_DAMAGE
                     /\ checkRectCollision(bullet, s.player)
           j == FirstHit(bullet, s.zombies, Len(s.zombies))
           hit == damageZombie(s.zombies[j], bullet.damage, s.dateNow)
           bled == [s EXCEPT !.zombies[j] =
                      [hit.zombie EXCEPT !.bloodParticles = @ \o createBloodParticles]]
           dead == [handleZombieDeath(bled, j) EXCEPT
                      !.zombies = RemoveAt(@, j),
                      !.gameState.zombiesKilled = @ + 1]
           s1 == IF hit.died THEN dead ELSE bled
       IN  IF j = 0 /\ ~struck THEN BulletsFromAnyTarget(s, i - 1)
           ELSE BulletsFromAnyTarget(
                  IF struck
                  THEN [damagePlayer(s, bullet.damage) EXCEPT
                          !.bullets = RemoveAt(@, i)]
                  ELSE Note([s1 EXCEPT !.bullets = RemoveAt(@, i)], "bulletHits",
                            [bullet |-> bullet.id, from |-> bullet.from,
                             zombie |-> s.zombies[j].id, damage |-> bullet.damage,
                             before |-> s.zombies[j].health, died |-> hit.died]),
                  i - 1)

\* The bullet loop of checkCollisions from bullet i down to the first.
RECURSIVE BulletsFrom(_, _)
BulletsFrom(s, i) ==
  IF i < 1 THEN s
  ELSE LET bullet == s.bullets[i]
           j == FirstHit(bullet, s.zombies, Len(s.zombies))
           hit == damageZombie(s.zombies[j], bullet.damage, s.dateNow)
           bled == [s EXCEPT !.zombies[j] =
                      [hit.zombie EXCEPT !.bloodParticles = @ \o createBloodParticles]]
           dead == [handleZombieDeath(bled, j) EXCEPT
                      !.zombies = RemoveAt(@, j),
                      !.gameState.zombiesKilled = @ + 1]
           s1 == IF hit.died THEN dead ELSE bled
       IN  IF j = 0 THEN BulletsFrom(s, i - 1)
           ELSE BulletsFrom(
                  Note([s1 EXCEPT !.bullets = RemoveAt(@, i)], "bulletHits",
                       [bullet |-> bullet.id, from |-> bullet.from,
                        zombie |-> s.zombies[j].id, damage |-> bullet.damage,
                        before |-> s.zombies[j].health, died |-> hit.died]),
                  i - 1)

\* The zombie loop of checkCollisions: `for (const zombie of this.zombies)`
\* reads position i of the array as it is at that moment, so the zombie that
\* moves into the place of a removed exploder is passed over.
RECURSIVE ContactFrom(_, _, _)
ContactFrom(s, i, currentTime) ==
  IF i > Len(s.zombies) THEN s
  ELSE LET zombie == s.zombies[i]
           attacks == /\ checkRectCircleCollision(s.player, zombie.x, zombie.y,
                                                  zombie.radius)
                      /\ currentTime - zombie.lastAttackTime > zombie.attackCooldown
           s1 == Note([damagePlayer(s, zombie.damage) EXCEPT
                         !.zombies[i].lastAttackTime = currentTime],
                      "attacks", zombie.id)
           s2 == IF zombie.type = "exploder"
                 THEN [handleExploderDeath(s1, i, "contact") EXCEPT
                         !.zombies = RemoveAt(@, i)]
                 ELSE s1
       IN  ContactFrom(IF attacks THEN s2 ELSE s, i + 1, currentTime)

checkCollisions(s, currentTime) ==
  LET shot == BulletsFrom(s, Len(s.bullets))
      seen == [shot EXCEPT !.obs.invAtContact = shot.player.invulnerableTime]
  IN  IF seen.player.invulnerableTime <= 0
      THEN ContactFrom(seen, 1, currentTime)
      ELSE seen

\* The effect of gate i on the count of shooters, before the cap.
GateCount(s, i) ==
  LET gate == s.gates[i]
  IN  IF gate.type = "add" THEN s.player.shooterCount + gate.value
      ELSE IF gate.type = "multiply" THEN s.player.shooterCount * gate.value
      ELSE s.player.shooterCount

\* The body of `if (checkRectCollision(this.player, gate))` as it would be
\* without the cap: the variant that the range of shooterCount rules out.
PassGateUncapped(s, i) ==
  Note([s EXCEPT !.gates[i].passed = TRUE,
                 !.player.shooterCount = GateCount(s, i),
                 !.past.gateEffects = Append(@, s.gates[i].id)],
       "gateEffects",
       [id |-> s.gates[i].id, type |-> s.gates[i].type, value |-> s.gates[i].value,
        before |-> s.player.shooterCount])

\* The body of `if (checkRectCollision(this.player, gate))` for gate i.
PassGate(s, i) ==
  Note([s EXCEPT !.gates[i].passed = TRUE,
                 !.player.shooterCount = Min(GateCount(s, i), 50),
                 !.past.gateEffects = Append(@, s.gates[i].id)],
       "gateEffects",
       [id |-> s.gates[i].id, type |-> s.gates[i].type, value |-> s.gates[i].value,
        before |-> s.player.shooterCount])

\* `gate.passed || !gate.active` as it would be without gate.passed: the
\* variant that the single use of a gate rules out.
GateInactive(gate) == ~gate.active

\* `gate.passed || !gate.active`: the gate is passed over.
GateDone(gate) == gate.passed \/ ~gate.active

\* The loop of checkGateCollisions from gate i on.
RECURSIVE GatesFrom(_, _)
GatesFrom(s, i) ==
  IF i > Len(s.gates) THEN s
  ELSE IF GateDone(s.gates[i]) THEN GatesFrom(s, i + 1)
  ELSE IF checkRectCollision(s.player, s.gates[i])
       THEN GatesFrom(PassGate(s, i), i + 1)
       ELSE GatesFrom(s, i + 1)

checkGateCollisions(s) == GatesFrom(s, 1)

\* respawnPlayer as it would be without `this.effects.clear()`: the variant
\* that the clearing of the effects rules out.
respawnPlayerKeepingEffects(s) ==
  Note([s EXCEPT !.isDead = FALSE,
                 !.player.x = CANVAS_WIDTH \div 2 - s.player.width \div 2,
                 !.player.y = CANVAS_HEIGHT - s.player.height - Px(20),
                 !.player.health = s.player.maxHealth,
                 !.player.invulnerableTime = 2000,
                 !.zombies = << >>,
                 !.bullets = << >>,
                 !.gameState.zombiesSpawned = 0,
                 !.gameState.waveActive = TRUE],
       "waves", "respawn")

respawnPlayer(s) ==
  Note([clear([s EXCEPT !.isDead = FALSE,
                        !.player.x = CANVAS_WIDTH \div 2 - s.player.width \div 2,
                        !.player.y = CANVAS_HEIGHT - s.player.height - Px(20),
                        !.player.health = s.player.maxHealth,
                        !.player.invulnerableTime = 2000,
                        !.zombies = << >>,
                        !.bullets = << >>])
          EXCEPT !.gameState.zombiesSpawned = 0,
                 !.gameState.waveActive = TRUE],
       "waves", "respawn")

updateDeath(s, currentTime) ==
  IF currentTime - s.deathTime > DEATH_RESPAWN_DELAY THEN respawnPlayer(s) ELSE s

\* What obs records of the state between two phases of update.
Glimpse(s) ==
  [ health |-> s.player.health,
    invulnerableTime |-> s.player.invulnerableTime,
    isDead |-> s.isDead,
    waveActive |-> s.gameState.waveActive,
    zombiesSpawned |-> s.gameState.zombiesSpawned,
    zombiesInWave |-> s.gameState.zombiesInWave,
    live |-> Len(s.zombies),
    attackTimes |-> [i \in 1..Len(s.zombies) |->
                       [id |-> s.zombies[i].id, at |-> s.zombies[i].lastAttackTime]],
    inReach |-> {i \in 1..Len(s.zombies) :
                   /\ checkRectCircleCollision(s.player, s.zombies[i].x, s.zombies[i].y,
                                               s.zombies[i].radius)
                   /\ s.obs.time - s.zombies[i].lastAttackTime
                        > s.zombies[i].attackCooldown},
    explosions |-> Len(s.explosions) ]

Glimpsed(s, f) == [s EXCEPT !.obs[f] = Glimpse(s)]

\* update as it would be with updateWaveSystem after checkCollisions: the
\* variant that the place of the wave check in the tick rules out.
updateWaveLast(s, currentTime, deltaTime, zombieDraws, gateDraws) ==
  LET s1 == updatePlayer(s, currentTime, deltaTime)
      s2 == updateBullets(Glimpsed(s1, "afterPlayer"), currentTime)
      s3 == updateZombies(s2, currentTime, deltaTime)
      s4 == updateZombieSpawning(s3, currentTime, zombieDraws)
      s6 == updateGates(Glimpsed(s4, "atWave"))
      s7 == updateGateSpawning(s6, currentTime, gateDraws)
      s8 == [s7 EXCEPT !.muzzleFlashes = updateMuzzleFlashes(@, deltaTime),
                       !.explosions = updateExplosions(@, currentTime)]
      s9 == checkCollisions(Glimpsed(s8, "atCollision"), currentTime)
  IN  checkGateCollisions(updateWaveSystem(s9, currentTime))

\* update(currentTime, deltaTime): the ten phases in the order of the source.
\* zombieDraws and gateDraws are the values Math.random() returns in the frame.
update(s, currentTime, deltaTime, zombieDraws, gateDraws) ==
  LET s1 == updatePlayer(s, currentTime, deltaTime)
      s2 == updateBullets(Glimpsed(s1, "afterPlayer"), currentTime)
      s3 == updateZombies(s2, currentTime, deltaTime)
      s4 == updateZombieSpawning(s3, currentTime, zombieDraws)
      s5 == updateWaveSystem(Glimpsed(s4, "atWave"), currentTime)
      s6 == updateGates(s5)
      s7 == updateGateSpawning(s6, currentTime, gateDraws)
      s8 == [s7 EXCEPT !.muzzleFlashes = updateMuzzleFlashes(@, deltaTime),
                       !.explosions = updateExplosions(@, currentTime)]
      s9 == checkCollisions(Glimpsed(s8, "atCollision"), currentTime)
  IN  checkGateCollisions(s9)

\* What obs holds at the start of a frame.
NoGlimpse == [health |-> 0, invulnerableTime |-> 0, isDead |-> FALSE,
              waveActive |-> FALSE, zombiesSpawned |-> 0, zombiesInWave |-> 0,
              live |-> 0, attackTimes |-> << >>, inReach |-> {}, explosions |-> 0]

FreshObs(phase, currentTime, deltaTime) ==
  [ phase |-> phase, time |-> currentTime, deltaTime |-> deltaTime,
    hits |-> << >>, blasts |-> << >>, deaths |-> << >>, shots |-> << >>,
    escapes |-> << >>, spawns |-> << >>, waves |-> << >>, gatePairs |-> << >>,
    bulletHits |-> << >>, attacks |-> << >>, gateEffects |-> << >>,
    invAtContact |-> 0,
    afterPlayer |-> NoGlimpse, atWave |-> NoGlimpse, atCollision |-> NoGlimpse ]

\* gameLoop as it would be without `!this.gameState.isPaused`: the variant that
\* the gate of the update phase rules out.
gameLoopUnpaused(s, currentTime, zombieDraws, gateDraws) ==
  LET deltaTime == currentTime - s.lastTime
      Timed(phase) == [s EXCEPT !.lastTime = currentTime,
                                !.obs = FreshObs(phase, currentTime, deltaTime)]
  IN  IF s.gameState.isPlaying
      THEN IF s.isDead
           THEN updateDeath(Timed("dead"), currentTime)
           ELSE update(Timed("update"), currentTime, deltaTime, zombieDraws, gateDraws)
      ELSE Timed("paused")

\* gameLoop as it would be if the frame of a dead player ran update before the
\* respawn check: the variant that the standstill of the dead game rules out.
gameLoopRestless(s, currentTime, zombieDraws, gateDraws) ==
  LET deltaTime == currentTime - s.lastTime
      Timed(phase) == [s EXCEPT !.lastTime = currentTime,
                                !.obs = FreshObs(phase, currentTime, deltaTime)]
  IN  IF ~s.gameState.isPaused /\ s.gameState.isPlaying
      THEN IF s.isDead
           THEN updateDeath(update(Timed("dead"), currentTime, deltaTime,
                                   zombieDraws, gateDraws),
                            currentTime)
           ELSE update(Timed("update"), currentTime, deltaTime, zombieDraws, gateDraws)
      ELSE Timed("paused")

\* gameLoop(currentTime) without the rendering and the request of the next frame.
gameLoop(s, currentTime, zombieDraws, gateDraws) ==
  LET deltaTime == currentTime - s.lastTime
      Timed(phase) == [s EXCEPT !.lastTime = currentTime,
                                !.obs = FreshObs(phase, currentTime, deltaTime)]
  IN  IF ~s.gameState.isPaused /\ s.gameState.isPlaying
      THEN IF s.isDead
           THEN updateDeath(Timed("dead"), currentTime)
           ELSE update(Timed("update"), currentTime, deltaTime, zombieDraws, gateDraws)
      ELSE Timed("paused")

---------------------------------------------------------------------------
(* The environment: the clock, the frames, the random numbers, the keyboard. *)

\* The horizon of a run, in milliseconds of frame time.
MaxTime == 20000

\* Date.now() counts from 1970 and the frame timestamps from the load of the
\* page: Date.now() is the frame time plus the time origin of the page.  On a
\* real clock the origin is about 1.7e12 ms; TIME_ORIGIN stands for it (any
\* value beyond the horizon plus the longest delay of the game acts alike).
\* An origin of 0 is a run on a synthetic clock that serves both readings.
TIME_ORIGIN == 100000

\* The three values of Math.random() that make createRandomZombie return a
\* zombie of the type in the lane at the place: "edge" is the left end of the
\* lane's band, "near" is two hundredths of the band further right.
TypeDraw == [standard |-> 25, runner |-> 60, tank |-> 80, spitter |-> 90,
             exploder |-> 97]
Draws(type, lane, place) ==
  <<TypeDraw[type], lane * 50, IF place = "edge" THEN 0 ELSE 2>>

\* A run of the game is driven by its inputs: the period of the frames, the
\* values Math.random() returns to the zombie spawner and to the gate spawner
\* (each list is read in a cycle), and the key events with their times.
\*   blast   exploders walk into the standing player, one in the line of fire;
\*   splash  an exploder is shot beside a tank;
\*   waves   runners, half of them in the line of fire, half running past;
\*   gates   the player steps left and right through the gates of each pair;
\*   overrun exploders and runners wear the player down, and the last zombie of
\*           the wave runs past the player;
\*   pair    an exploder and a runner stand on the player when the
\*           invulnerability left by an earlier runner ends;
\*   volley  every zombie is a runner in the line of fire;
\*   strafe  the player runs to the left edge and to the right edge, with both
\*           directions held at an edge and in between;
\*   lag     a display of 25 frames a second: a bullet is still inside the
\*           canvas when it reaches its lifetime;
\*   spit    a display of 200 frames a second, and a page that gets no frame
\*           for two and a half seconds: a spitter runs past the player and
\*           spits in the tick of its escape.
Key(at, type, key) == [at |-> at, type |-> type, key |-> key]

Scenarios ==
  [ blast |->
      [ period |-> {20},
        zombieDraws |-> << Draws("exploder", 1, "near"), Draws("exploder", 1, "edge"),
                           Draws("exploder", 1, "near"), Draws("exploder", 1, "near"),
                           Draws("tank", 0, "edge"), Draws("tank", 0, "edge"),
                           Draws("tank", 0, "edge"), Draws("tank", 0, "edge"),
                           Draws("tank", 0, "edge"), Draws("tank", 0, "edge") >>,
        gateDraws |-> << <<60, 40, 99, 99>> >>,
        keyEvents |-> << >> ],
    splash |->
      [ period |-> {20},
        zombieDraws |-> << Draws("tank", 0, "edge"), Draws("standard", 1, "near"),
                           Draws("exploder", 1, "edge"), Draws("spitter", 1, "near"),
                           Draws("exploder", 1, "edge"), Draws("tank", 0, "edge"),
                           Draws("tank", 0, "edge"), Draws("tank", 0, "edge"),
                           Draws("tank", 0, "edge"), Draws("tank", 0, "edge") >>,
        gateDraws |-> << <<40, 60, 0, 0>> >>,
        keyEvents |-> << >> ],
    waves |->
      [ period |-> {20},
        zombieDraws |-> << Draws("runner", 1, "edge"), Draws("runner", 0, "edge") >>,
        gateDraws |-> << <<60, 60, 50, 50>> >>,
        keyEvents |-> << >> ],
    gates |->
      [ period |-> {20},
        zombieDraws |-> << Draws("tank", 0, "edge") >>,
        gateDraws |-> << <<60, 40, 99, 99>>, <<40, 40, 99, 0>> >>,
        keyEvents |-> << Key(11600, "keydown", "A"), Key(11720, "keyup", "A"),
                         Key(11740, "keydown", "ArrowRight"),
                         Key(12000, "keyup", "ArrowRight"),
                         Key(15700, "keydown", "a"), Key(16000, "keyup", "a") >> ],
    overrun |->
      [ period |-> {20},
        zombieDraws |-> << Draws("exploder", 1, "near"), Draws("exploder", 0, "edge"),
                           Draws("runner", 1, "near"), Draws("exploder", 0, "edge"),
                           Draws("exploder", 1, "near"), Draws("runner", 1, "edge"),
                           Draws("runner", 1, "near"), Draws("runner", 1, "edge"),
                           Draws("runner", 0, "edge"), Draws("exploder", 0, "edge") >>,
        gateDraws |-> << <<60, 40, 99, 99>> >>,
        keyEvents |-> << >> ],
    pair |->
      [ period |-> {20},
        zombieDraws |-> << Draws("exploder", 1, "near"), Draws("runner", 1, "edge"),
                           Draws("runner", 1, "near"), Draws("runner", 1, "near"),
                           Draws("tank", 0, "edge"), Draws("tank", 0, "edge"),
                           Draws("tank", 0, "edge"), Draws("tank", 0, "edge"),
                           Draws("tank", 0, "edge"), Draws("tank", 0, "edge") >>,
        gateDraws |-> << <<40, 60, 0, 0>> >>,
        keyEvents |-> << >> ],
    volley |->
      [ period |-> {20},
        zombieDraws |-> << Draws("runner", 1, "edge") >>,
        gateDraws |-> << <<60, 60, 50, 50>> >>,
        keyEvents |-> << >> ],
    strafe |->
      [ period |-> {20},
        zombieDraws |-> << Draws("tank", 0, "edge") >>,
        gateDraws |-> << <<60, 40, 99, 99>> >>,
        keyEvents |-> << Key(1000, "keydown", "a"), Key(3100, "keydown", "d"),
                         Key(3200, "keyup", "a"), Key(4000, "keydown", "ArrowLeft"),
                         Key(4200, "keyup", "ArrowLeft"), Key(7600, "keyup", "d"),
                         Key(7700, "keydown", "ArrowLeft"),
                         Key(7800, "keydown", "ArrowRight"),
                         Key(7900, "keyup", "ArrowLeft"),
                         Key(8000, "keyup", "ArrowRight") >> ],
    lag |->
      [ period |-> {40},
        zombieDraws |-> << Draws("runner", 0, "edge") >>,
        gateDraws |-> << <<60, 40, 99, 99>> >>,
        keyEvents |-> << >> ],
    spit |->
      [ period |-> {5},
        stall |-> [at |-> 7535, length |-> 2485],
        zombieDraws |-> << Draws("spitter", 0, "edge"), Draws("tank", 0, "edge"),
                           Draws("tank", 0, "edge"), Draws("tank", 0, "edge"),
                           Draws("tank", 0, "edge"), Draws("tank", 0, "edge"),
                           Draws("tank", 0, "edge"), Draws("tank", 0, "edge"),
                           Draws("tank", 0, "edge"), Draws("tank", 0, "edge") >>,
        gateDraws |-> << <<60, 40, 99, 99>> >>,
        keyEvents |-> << >> ] ]

\* The lengths the frame after the frame at time t may have in the scenario:
\* the period of the display, or the time the page gets no frame (a hidden tab
\* is not animated) when a stall of the scenario begins at t.
FramePeriods(sc, t) ==
  IF "stall" \in DOMAIN Scenarios[sc] /\ Scenarios[sc].stall.at = t
  THEN {Scenarios[sc].stall.length}
  ELSE Scenarios[sc].period

---------------------------------------------------------------------------
(* The standalone prototype (main.ts): one page with a player, bullets and  *)
(* zombies in module variables, here the fields of one record p.  Lengths   *)
(* are in tenths of a pixel, times in milliseconds; positions of arrays     *)
(* count from 1, so that `for (let i = a.length - 1; i >= 0; i--)` runs     *)
(* from Len(a) down to 1.  p.thrown records that update ended in a          *)
(* TypeError: the read of a field of a missing array element.               *)

Tenths(n) == n * 10

ProtoCanvasWidth == Tenths(800)
ProtoCanvasHeight == Tenths(600)
ProtoPlayerWidth == Tenths(50)
ProtoPlayerHeight == Tenths(50)
ProtoPlayerY == ProtoCanvasHeight - Tenths(100)
ProtoPlayerStart == ProtoCanvasWidth \div 2 - Tenths(25)
ProtoPlayerSpeed == Tenths(5)
ProtoShootInterval == 500
ProtoZombieSpawnInterval == 1000

\* The module state of main.ts after the page has loaded.
ProtoLoaded ==
  [ player |-> [x |-> ProtoPlayerStart, velocityX |-> 0],
    score |-> 0,
    lastShootTime |-> 0,
    bullets |-> << >>,
    zombies |-> << >>,
    lastZombieSpawn |-> 0,
    keys |-> [left |-> FALSE, right |-> FALSE],
    time |-> 0,
    resets |-> 0,
    thrown |-> FALSE ]

\* spawnZombie, with Math.random() = xDraw / 100 and then speedDraw / 100.
spawnZombie(p, xDraw, speedDraw) ==
  [p EXCEPT !.zombies = Append(@, [x |-> (xDraw * ProtoCanvasWidth) \div 100,
                                   y |-> -Tenths(30),
                                   radius |-> Tenths(15),
                                   speed |-> Tenths(1) + (speedDraw * Tenths(2)) \div 100])]

\* shootBullet of main.ts.
protoShootBullet(p) ==
  [p EXCEPT !.bullets = Append(@, [x |-> p.player.x + ProtoPlayerWidth \div 2 - 25,
                                   y |-> ProtoPlayerY,
                                   width |-> Tenths(5),
                                   height |-> Tenths(15),
                                   speed |-> Tenths(7)])]

\* checkCollision(bullet, zombie): the distance of the centres is below
\* zombie.radius + bullet.width / 2, compared by the squares.
checkCollision(bullet, zombie) ==
  LET dx == bullet.x + bullet.width \div 2 - zombie.x
      dy == bullet.y + bullet.height \div 2 - zombie.y
      reach == zombie.radius + bullet.width \div 2
  IN  dx * dx + dy * dy < reach * reach

checkZombiePlayerCollision(p, zombie) ==
  /\ zombie.x + zombie.radius > p.player.x
  /\ zombie.x - zombie.radius < p.player.x + ProtoPlayerWidth
  /\ zombie.y + zombie.radius > ProtoPlayerY
  /\ zombie.y - zombie.radius < ProtoPlayerY + ProtoPlayerHeight

\* The keydown and keyup listeners of main.ts.
protoKeyDown(p, key) ==
  LET l == IF key \in {"ArrowLeft", "a", "A"} THEN [p EXCEPT !.keys.left = TRUE] ELSE p
  IN  IF key \in {"ArrowRight", "d", "D"} THEN [l EXCEPT !.keys.right = TRUE] ELSE l

protoKeyUp(p, key) ==
  LET l == IF key \in {"ArrowLeft", "a", "A"} THEN [p EXCEPT !.keys.left = FALSE] ELSE p
  IN  IF key \in {"ArrowRight", "d", "D"} THEN [l EXCEPT !.keys.right = FALSE] ELSE l

\* The first part of update: the movement of the player and the automatic shot.
protoUpdatePlayer(p, currentTime) ==
  LET velocityX == IF p.keys.right THEN ProtoPlayerSpeed
                   ELSE IF p.keys.left THEN -ProtoPlayerSpeed ELSE 0
      x == p.player.x + velocityX
      low == IF x < 0 THEN 0 ELSE x
      kept == IF low + ProtoPlayerWidth > ProtoCanvasWidth
              THEN ProtoCanvasWidth - ProtoPlayerWidth ELSE low
      moved == [p EXCEPT !.player = [x |-> kept, velocityX |-> velocityX]]
  IN  IF currentTime - p.lastShootTime > ProtoShootInterval
      THEN [protoShootBullet(moved) EXCEPT !.lastShootTime = currentTime]
      ELSE moved

\* The read of a[i].f for a position outside the array: undefined has no
\* fields, the statement throws and update ends there.
ProtoThrow(p) == [p EXCEPT !.thrown = TRUE]

\* The loop `Update bullets` of update from position i down to the first.
RECURSIVE ProtoMoveBullets(_, _)
ProtoMoveBullets(p, i) ==
  IF i < 1 THEN p
  ELSE IF i > Len(p.bullets) THEN ProtoThrow(p)
  ELSE LET bullet == [p.bullets[i] EXCEPT !.y = @ - p.bullets[i].speed]
       IN  ProtoMoveBullets(
             [p EXCEPT !.bullets = IF bullet.y < -bullet.height
                                   THEN RemoveAt(@, i)
                                   ELSE [@ EXCEPT ![i] = bullet]],
             i - 1)

\* The loop `Update zombies` of update from position i down to the first.
\* After a zombie has hit the player the arrays are empty and `continue`
\* goes on to position i - 1.
RECURSIVE ProtoMoveZombies(_, _)
ProtoMoveZombies(p, i) ==
  IF i < 1 THEN p
  ELSE IF i > Len(p.zombies) THEN ProtoThrow(p)
  ELSE LET zombie == [p.zombies[i] EXCEPT !.y = @ + p.zombies[i].speed]
       IN  IF checkZombiePlayerCollision(p, zombie)
           THEN ProtoMoveZombies([p EXCEPT !.zombies = << >>,
                                           !.bullets = << >>,
                                           !.score = 0,
                                           !.player.x = ProtoPlayerStart,
                                           !.resets = @ + 1],
                                 i - 1)
           ELSE ProtoMoveZombies(
                  [p EXCEPT !.zombies = IF zombie.y > ProtoCanvasHeight + zombie.radius
                                        THEN RemoveAt(@, i)
                                        ELSE [@ EXCEPT ![i] = zombie]],
                  i - 1)

\* The inner loop of `Check bullet-zombie collisions`: the position of the
\* first zombie, from position j down, that the bullet hits; 0 if none.
RECURSIVE ProtoFirstHit(_, _, _)
ProtoFirstHit(bullet, zs, j) ==
  IF j < 1 THEN 0
  ELSE IF checkCollision(bullet, zs[j]) THEN j
  ELSE ProtoFirstHit(bullet, zs, j - 1)

\* The outer loop of `Check bullet-zombie collisions` from position i down.
\* bullets[i] is read only if there is a zombie to compare it with.
RECURSIVE ProtoHitZombies(_, _)
ProtoHitZombies(p, i) ==
  IF i < 1 THEN p
  ELSE IF i > Len(p.bullets) /\ Len(p.zombies) > 0 THEN ProtoThrow(p)
  ELSE LET j == IF Len(p.zombies) = 0 THEN 0
                ELSE ProtoFirstHit(p.bullets[i], p.zombies, Len(p.zombies))
       IN  ProtoHitZombies(IF j = 0 THEN p
                           ELSE [p EXCEPT !.bullets = RemoveAt(@, i),
                                          !.zombies = RemoveAt(@, j),
                                          !.score = @ + 10],
                           i - 1)

\* update(currentTime) of main.ts; a statement that throws ends it.
protoUpdate(p, currentTime, xDraw, speedDraw) ==
  LET shot == protoUpdatePlayer(p, currentTime)
      flown == ProtoMoveBullets(shot, Len(shot.bullets))
      spawned == IF currentTime - flown.lastZombieSpawn > ProtoZombieSpawnInterval
                 THEN [spawnZombie(flown, xDraw, speedDraw) EXCEPT
                         !.lastZombieSpawn = currentTime]
                 ELSE flown
      walked == IF flown.thrown THEN flown
                ELSE ProtoMoveZombies(spawned, Len(spawned.zombies))
  IN  IF walked.thrown THEN walked
      ELSE ProtoHitZombies(walked, Len(walked.bullets))

\* gameLoop(currentTime) of main.ts without the rendering: update, and the
\* time of the frame for the next one.
protoGameLoop(p, currentTime, xDraw, speedDraw) ==
  [protoUpdate(p, currentTime, xDraw, speedDraw) EXCEPT !.time = currentTime]

VARIABLES player, bullets, zombies, gates, gameState, muzzleFlashes, explosions,
          keys, lastTime, lastZombieSpawnTime, lastGateSpawnTime, deathTime, isDead,
          timeOrigin, scenario, keyPos, serial, obs, past, proto

vars == <<player, bullets, zombies, gates, gameState, muzzleFlashes, explosions,
          keys, lastTime, lastZombieSpawnTime, lastGateSpawnTime, deathTime, isDead,
          timeOrigin, scenario, keyPos, serial, obs, past, proto>>

\* The state of the game as the record the methods work on.
Game(now) ==
  [ player |-> player, bullets |-> bullets, zombies |-> zombies, gates |-> gates,
    gameState |-> gameState, muzzleFlashes |-> muzzleFlashes,
    explosions |-> explosions, keys |-> keys, lastTime |-> lastTime,
    lastZombieSpawnTime |-> lastZombieSpawnTime,
    lastGateSpawnTime |-> lastGateSpawnTime, deathTime |-> deathTime,
    isDead |-> isDead, dateNow |-> now, serial |-> serial, obs |-> obs,
    past |-> past ]

\* The game as constructed at frame time 0 in scenario sc with time origin o.
Constructed(sc, o) ==
  /\ scenario = sc
  /\ timeOrigin = o
  /\ player = createPlayer
  /\ bullets = << >>
  /\ zombies = << >>
  /\ gates = << >>
  /\ gameState = [ isPlaying |-> TRUE, isPaused |-> FALSE, currentWave |-> 1,
                   zombiesKilled |-> 0, zombiesInWave |-> BASE_ZOMBIES_PER_WAVE,
                   zombiesSpawned |-> 0, waveStartTime |-> o, waveActive |-> TRUE,
                   explorationMode |-> FALSE, currentLevel |-> 1 ]
  /\ muzzleFlashes = << >>
  /\ explosions = << >>
  /\ keys = {}
  /\ lastTime = 0
  /\ lastZombieSpawnTime = 0
  /\ lastGateSpawnTime = o
  /\ deathTime = 0
  /\ isDead = FALSE
  /\ keyPos = 0
  /\ serial = [zombies |-> 0, gates |-> 0, bullets |-> 0]
  /\ obs = FreshObs("constructed", 0, 0)
  /\ past = [diedAt |-> 0, gateAt |-> 0, gateEffects |-> << >>]
  /\ proto = ProtoLoaded

\* The next unread entry of a list read in a cycle, n entries having been read.
Cyclic(list, n) == list[(n % Len(list)) + 1]

\* The key event that is due, if any.
KeyDue ==
  /\ keyPos < Len(Scenarios[scenario].keyEvents)
  /\ lastTime >= Scenarios[scenario].keyEvents[keyPos + 1].at

\* e.key.toLowerCase() on the keys the game reads.
ToLowerCase(key) ==
  CASE key = "A" -> "a"
    [] key = "D" -> "d"
    [] key = "ArrowLeft" -> "arrowleft"
    [] key = "ArrowRight" -> "arrowright"
    [] OTHER -> key

\* The keydown handler.
KeyDown ==
  /\ KeyDue
  /\ Scenarios[scenario].keyEvents[keyPos + 1].type = "keydown"
  /\ keys' = keys \cup {ToLowerCase(Scenarios[scenario].keyEvents[keyPos + 1].key)}
  /\ keyPos' = keyPos + 1
  /\ UNCHANGED <<player, bullets, zombies, gates, gameState, muzzleFlashes,
                 explosions, lastTime, lastZombieSpawnTime, lastGateSpawnTime,
                 deathTime, isDead, timeOrigin, scenario, serial, obs, past,
                 proto>>

\* The keyup handler.
KeyUp ==
  /\ KeyDue
  /\ Scenarios[scenario].keyEvents[keyPos + 1].type = "keyup"
  /\ keys' = keys \ {ToLowerCase(Scenarios[scenario].keyEvents[keyPos + 1].key)}
  /\ keyPos' = keyPos + 1
  /\ UNCHANGED <<player, bullets, zombies, gates, gameState, muzzleFlashes,
                 explosions, lastTime, lastZombieSpawnTime, lastGateSpawnTime,
                 deathTime, isDead, timeOrigin, scenario, serial, obs, past,
                 proto>>

\* One frame not later than the horizon: the callback gameLoop(currentTime)
\* runs to its end.
FrameWithin(horizon) ==
  /\ ~KeyDue
  /\ \E deltaTime \in FramePeriods(scenario, lastTime) :
       /\ lastTime + deltaTime <= horizon
       /\ \E s \in {gameLoop(Game(timeOrigin + lastTime + deltaTime),
                              lastTime + deltaTime,
                              Cyclic(Scenarios[scenario].zombieDraws, serial.zombies),
                              Cyclic(Scenarios[scenario].gateDraws,
                                     serial.gates \div 2))} :
            /\ player' = s.player
            /\ bullets' = s.bullets
            /\ zombies' = s.zombies
            /\ gates' = s.gates
            /\ gameState' = s.gameState
            /\ muzzleFlashes' = s.muzzleFlashes
            /\ explosions' = s.explosions
            /\ lastTime' = s.lastTime
            /\ lastZombieSpawnTime' = s.lastZombieSpawnTime
            /\ lastGateSpawnTime' = s.lastGateSpawnTime
            /\ deathTime' = s.deathTime
            /\ isDead' = s.isDead
            /\ serial' = s.serial
            /\ obs' = s.obs
            /\ past' = s.past
  /\ UNCHANGED <<keys, timeOrigin, scenario, keyPos, proto>>

Frame == FrameWithin(MaxTime)

Init == \E sc \in DOMAIN Scenarios : \E o \in {0, TIME_ORIGIN} : Constructed(sc, o)

Next == Frame \/ KeyDown \/ KeyUp

Spec == Init /\ [][Next]_vars

\* GameState.isPaused is a writable field that nothing in the repository
\* writes after the constructor: under Spec the game is never paused.  The
\* pausable game is the same game with a host that sets the field at one of the
\* frame times in PauseTimes; the frames that follow run gameLoop on the paused
\* game.
PauseTimes == {1800, 10000}

Pause ==
  /\ ~gameState.isPaused
  /\ lastTime \in PauseTimes
  /\ gameState' = [gameState EXCEPT !.isPaused = TRUE]
  /\ UNCHANGED <<player, bullets, zombies, gates, muzzleFlashes, explosions, keys,
                 lastTime, lastZombieSpawnTime, lastGateSpawnTime, deathTime, isDead,
                 timeOrigin, scenario, keyPos, serial, obs, past, proto>>

NextPausable == Frame \/ KeyDown \/ KeyUp \/ Pause

SpecPausable == Init /\ [][NextPausable]_vars

\* The game on a real clock, followed while the player lives until the wave
\* number reaches MaxWave or the frame time reaches LiveMaxTime.  gameLoop
\* requests the next frame at its end (requestAnimationFrame) and the
\* listeners run when a key event is due, so neither is put off for ever: a
\* frame that can run does run, which shows as an advance of lastTime, and a
\* key event that is due is handled, which shows as an advance of keyPos.
MaxWave == 2
LiveMaxTime == 100000

FrameLive ==
  /\ ~isDead
  /\ gameState.currentWave < MaxWave
  /\ FrameWithin(LiveMaxTime)

NextLive == FrameLive \/ KeyDown \/ KeyUp

FrameRuns ==
  /\ ~isDead
  /\ gameState.currentWave < MaxWave
  /\ ~KeyDue
  /\ \E deltaTime \in FramePeriods(scenario, lastTime) :
       /\ lastTime + deltaTime <= LiveMaxTime
       /\ lastTime' = lastTime + deltaTime

KeyHandled == KeyDue /\ keyPos' = keyPos + 1

InitLive == \E sc \in DOMAIN Scenarios : Constructed(sc, TIME_ORIGIN)

LiveSpec ==
  InitLive /\ [][NextLive]_vars /\ WF_lastTime(FrameRuns) /\ WF_keyPos(KeyHandled)

\* The page of the prototype: frames ProtoPeriod apart up to ProtoMaxTime, the
\* two random numbers of a spawn drawn from ProtoXDraws and ProtoSpeedDraws
\* (hundredths), and key events of the keys in ProtoKeys at the frame times in
\* ProtoKeyDownTimes and ProtoKeyUpTimes.  gameLoop requests the next frame
\* as its last statement: after an update that has thrown there is none.
ProtoPeriod == 20
ProtoMaxTime == 5600
ProtoXDraws == {50, 54}
ProtoSpeedDraws == {0, 95}
ProtoKeys == {"ArrowLeft", "d", "x"}
ProtoKeyDownTimes == {4200}
ProtoKeyUpTimes == {4400}

GameIdle ==
  UNCHANGED <<player, bullets, zombies, gates, gameState, muzzleFlashes, explosions,
              keys, lastTime, lastZombieSpawnTime, lastGateSpawnTime, deathTime,
              isDead, timeOrigin, scenario, keyPos, serial, obs, past>>

ProtoFrame ==
  /\ ~proto.thrown
  /\ proto.time + ProtoPeriod <= ProtoMaxTime
  /\ \E xDraw \in ProtoXDraws : \E speedDraw \in ProtoSpeedDraws :
       proto' = protoGameLoop(proto, proto.time + ProtoPeriod, xDraw, speedDraw)
  /\ GameIdle

ProtoKeyDown ==
  /\ proto.time \in ProtoKeyDownTimes
  /\ \E key \in ProtoKeys : proto' = protoKeyDown(proto, key)
  /\ GameIdle

ProtoKeyUp ==
  /\ proto.time \in ProtoKeyUpTimes
  /\ \E key \in ProtoKeys : proto' = protoKeyUp(proto, key)
  /\ GameIdle

ProtoInit == Constructed("blast", 0)

ProtoNext == ProtoFrame \/ ProtoKeyDown \/ ProtoKeyUp

ProtoSpec == ProtoInit /\ [][ProtoNext]_vars

---------------------------------------------------------------------------
(* Properties of the game.                                                   *)

\* The set of the entries of a sequence.
Range(seq) == {seq[k] : k \in 1..Len(seq)}

\* The frame just run was an update of a live, unpaused game.
Updated == obs.phase = "update"

\* C1: in every reachable state player.health is within [0, player.maxHealth].
PlayerHealthInRange ==
  player.health >= 0 /\ player.health <= player.maxHealth

\* C2: at the end of a tick no zombie with health 0 is in the live collection:
\* a zombie whose health reaches 0 is removed in that tick, whatever hurt it.
NoDeadZombieLive ==
  \A i \in 1..Len(zombies) : zombies[i].health > 0

\* C3: a dead player is respawned in the first frame whose timestamp is more
\* than DEATH_RESPAWN_DELAY after the frame time of the death: after a frame
\* that leaves the player dead, no more than the delay has passed.
RespawnAfterDelay ==
  isDead => lastTime - past.diedAt <= DEATH_RESPAWN_DELAY

\* C4: a tick of update whose timestamp exceeds the frame time of the previous
\* gate spawn (the construction, before the first) by more than
\* GATE_SPAWN_INTERVAL adds exactly two gates, one in lane 0 and one in lane 1.
GatePairEveryInterval ==
  [][ ( /\ lastTime' # lastTime
        /\ obs'.phase = "update"
        /\ lastTime' - past.gateAt > GATE_SPAWN_INTERVAL )
      => LET new == {j \in 1..Len(gates') : gates'[j].id > serial.gates}
         IN  /\ Cardinality(new) = 2
             /\ {gates'[j].lane : j \in new} = {0, 1} ]_vars

\* C5: player.shooterCount is within [1, 50] in every reachable state.
ShooterCountInRange ==
  player.shooterCount >= 1 /\ player.shooterCount <= 50

\* C5, the case: a gate has just multiplied the count beyond 50 and the count
\* is 50.
ShooterCountCapped ==
  /\ Updated
  /\ player.shooterCount = 50
  /\ \E k \in 1..Len(obs.gateEffects) :
        /\ obs.gateEffects[k].type = "multiply"
        /\ obs.gateEffects[k].before * obs.gateEffects[k].value > 50

\* C6: a gate that is passed stays passed, and the effect of a gate is applied
\* at most once: the gates whose effect a frame applies were not passed before
\* it, had no effect applied in any earlier frame, and are distinct; and the
\* count of shooters changes only in a frame that applies the effect of a gate.
GatePassedOnce ==
  [][ /\ \A i \in 1..Len(gates) : \A j \in 1..Len(gates') :
           (gates[i].id = gates'[j].id /\ gates[i].passed) => gates'[j].passed
      /\ lastTime' # lastTime =>
           \A k \in 1..Len(obs'.gateEffects) :
              /\ obs'.gateEffects[k].id \notin Range(past.gateEffects)
              /\ \A i \in 1..Len(gates) :
                    gates[i].id = obs'.gateEffects[k].id => ~gates[i].passed
              /\ \A m \in 1..Len(obs'.gateEffects) :
                    obs'.gateEffects[m].id = obs'.gateEffects[k].id => m = k
      /\ player'.shooterCount # player.shooterCount =>
           (lastTime' # lastTime /\ obs'.gateEffects # << >>) ]_vars

\* C6, the case: the player's box overlaps a gate that was passed in an
\* earlier frame, and the frame applies no effect.
GateOverlappedAgain ==
  /\ Updated
  /\ obs.gateEffects = << >>
  /\ \E i \in 1..Len(gates) :
        /\ gates[i].passed
        /\ gates[i].id \in Range(past.gateEffects)
        /\ checkRectCollision(player, gates[i])

\* The condition of a complete wave in the state the wave phase of the frame
\* found.
WaveOver(at) ==
  at.waveActive /\ at.zombiesSpawned = at.zombiesInWave /\ at.live = 0

\* C7: the wave goes from active to resting in a tick if and only if the tick
\* is an update and, at its wave phase, the wave is active, zombiesSpawned
\* equals zombiesInWave and no zombie is live.
WaveRestsIffOver ==
  [][ /\ lastTime' # lastTime =>
           ( (gameState.waveActive /\ ~gameState'.waveActive)
               <=> (obs'.phase = "update" /\ WaveOver(obs'.atWave)) )
      /\ lastTime' = lastTime => gameState' = gameState ]_vars

\* C7, the case: the frame has just completed the wave.
WaveJustRested ==
  /\ Updated
  /\ WaveOver(obs.atWave)
  /\ ~gameState.waveActive
  /\ obs.waves = <<"complete">>

\* C8: a call of damagePlayer while invulnerableTime > 0 leaves the health as
\* it is; and a tick whose collision phase starts with invulnerableTime > 0
\* has no zombie attack: no contact damage, no attack time reset, no exploder
\* exploding on contact.
InvulnerableTakesNoDamage ==
  /\ \A k \in 1..Len(obs.hits) :
        obs.hits[k].invulnerableTime > 0 => obs.hits[k].after = obs.hits[k].before
  /\ (Updated /\ obs.atCollision.invulnerableTime > 0) =>
        /\ obs.attacks = << >>
        /\ \A k \in 1..Len(obs.blasts) : obs.blasts[k].cause # "contact"
        /\ \A i \in 1..Len(zombies) :
              \A k \in 1..Len(obs.atCollision.attackTimes) :
                 obs.atCollision.attackTimes[k].id = zombies[i].id
                   => zombies[i].lastAttackTime = obs.atCollision.attackTimes[k].at
        /\ player.health = obs.atCollision.health

\* C8, the case: the collision phase starts with the player invulnerable and
\* a zombie touching the player with its attack cooldown over.
AttackSkipped ==
  /\ Updated
  /\ obs.atCollision.invulnerableTime > 0
  /\ obs.atCollision.inReach # {}

\* C9: the health of every live zombie is within [0, maxHealth].
ZombieHealthInRange ==
  \A i \in 1..Len(zombies) :
     zombies[i].health >= 0 /\ zombies[i].health <= zombies[i].maxHealth

\* C9, the case: an explosion of this frame has cut the health of a zombie
\* that had less than 50 to 0, and the zombie is live.
ZombieCutToZero ==
  \E b \in 1..Len(obs.blasts) : \E k \in 1..Len(obs.blasts[b].before) :
     /\ k # obs.blasts[b].at
     /\ obs.blasts[b].before[k].health \in 1..49
     /\ obs.blasts[b].after[k].health = 0
     /\ \E i \in 1..Len(zombies) : zombies[i].id = obs.blasts[b].before[k].id

\* The centres of the exploder and of zombie k of the blast are less than r
\* apart.
Within(blast, k, r) ==
  DistanceLess(blast.before[k].x - blast.before[blast.at].x,
               blast.before[k].y - blast.before[blast.at].y, r)

\* C10 as stated: when an exploder explodes, every other live zombie within
\* 100 px of it has its health before minus 50 as its health after.
SplashTakesFifty ==
  \A b \in 1..Len(obs.blasts) : \A k \in 1..Len(obs.blasts[b].before) :
     (k # obs.blasts[b].at /\ Within(obs.blasts[b], k, Px(100)))
       => obs.blasts[b].after[k].health = obs.blasts[b].before[k].health - 50

\* C10 as the code has it: when an exploder explodes, every other live zombie
\* whose centre is less than the explosion radius plus its own radius away has
\* max(0, health before - 50) as its health after, and every zombie further
\* away keeps its health.
SplashTakesFiftyOrAll ==
  \A b \in 1..Len(obs.blasts) : \A k \in 1..Len(obs.blasts[b].before) :
     k # obs.blasts[b].at =>
       obs.blasts[b].after[k].health =
         IF Within(obs.blasts[b], k, obs.blasts[b].radius + obs.blasts[b].before[k].radius)
         THEN Max(0, obs.blasts[b].before[k].health - 50)
         ELSE obs.blasts[b].before[k].health

\* C10, the case: an explosion has taken 50 from a zombie that had at least
\* 50 and has left alone a zombie out of its reach.
SplashTookFifty ==
  \E b \in 1..Len(obs.blasts) :
     /\ \E k \in 1..Len(obs.blasts[b].before) :
           /\ k # obs.blasts[b].at
           /\ obs.blasts[b].before[k].health >= 50
           /\ obs.blasts[b].after[k].health = obs.blasts[b].before[k].health - 50
     /\ \E k \in 1..Len(obs.blasts[b].before) :
           /\ k # obs.blasts[b].at
           /\ ~Within(obs.blasts[b], k,
                      obs.blasts[b].radius + obs.blasts[b].before[k].radius)

\* C11: explosions do not chain.  A frame creates exactly one explosion effect
\* for each exploder it explodes; every exploder it explodes was killed by a
\* bullet of the frame or attacked the player in the frame, never only
\* splashed; and no zombie explodes twice.
NoChainedExplosion ==
  Updated =>
    /\ Len(explosions) = obs.atCollision.explosions + Len(obs.blasts)
    /\ \A b \in 1..Len(obs.blasts) :
          /\ obs.blasts[b].cause \in {"death", "contact"}
          /\ obs.blasts[b].cause = "death" =>
                \E h \in 1..Len(obs.bulletHits) :
                   obs.bulletHits[h].zombie = obs.blasts[b].id /\ obs.bulletHits[h].died
          /\ obs.blasts[b].cause = "contact" =>
                obs.blasts[b].id \in Range(obs.attacks)
          /\ \A c \in 1..Len(obs.blasts) :
                obs.blasts[c].id = obs.blasts[b].id => c = b

\* C11, the case: the one explosion of the frame has cut the health of another
\* exploder to 0.
ExploderSplashedToZero ==
  /\ Updated
  /\ Len(obs.blasts) = 1
  /\ Len(explosions) = obs.atCollision.explosions + 1
  /\ \E k \in 1..Len(obs.blasts[1].before) :
        /\ k # obs.blasts[1].at
        /\ obs.blasts[1].before[k].type = "exploder"
        /\ obs.blasts[1].before[k].health > 0
        /\ obs.blasts[1].after[k].health = 0

\* C12: in the collision phase of a tick a bullet damages at most one zombie,
\* and a bullet that has hit a zombie is gone from the bullet collection at the
\* end of the tick; the live bullets are distinct bullets, so a bullet that is
\* gone does not hit again.
BulletHitsOnce ==
  /\ \A h \in 1..Len(obs.bulletHits) :
        /\ \A g \in 1..Len(obs.bulletHits) :
              obs.bulletHits[g].bullet = obs.bulletHits[h].bullet => g = h
        /\ \A i \in 1..Len(bullets) : bullets[i].id # obs.bulletHits[h].bullet
  /\ \A i \in 1..Len(bullets) :
        /\ bullets[i].id <= serial.bullets
        /\ \A k \in 1..Len(bullets) : bullets[k].id = bullets[i].id => k = i

\* C12, the case: a bullet has hit a zombie that survives the hit and is still
\* live, and the bullet is gone.
BulletSpentOnSurvivor ==
  /\ Updated
  /\ \E h \in 1..Len(obs.bulletHits) :
        /\ ~obs.bulletHits[h].died
        /\ \E i \in 1..Len(zombies) :
              /\ zombies[i].id = obs.bulletHits[h].zombie
              /\ zombies[i].health = obs.bulletHits[h].before - obs.bulletHits[h].damage
        /\ \A i \in 1..Len(bullets) : bullets[i].id # obs.bulletHits[h].bullet

\* C13: whenever the wave goes from resting to active the wave number grows by
\* one, and the wave number changes at no other step.
WaveAdvancesOnActivation ==
  [][ /\ (~gameState.waveActive /\ gameState'.waveActive)
           => gameState'.currentWave = gameState.currentWave + 1
      /\ gameState'.currentWave # gameState.currentWave
           => /\ ~gameState.waveActive /\ gameState'.waveActive
              /\ gameState'.currentWave = gameState.currentWave + 1 ]_vars

\* C14: in every state the quota of the wave is
\* BASE_ZOMBIES_PER_WAVE + (currentWave - 1) * WAVE_ZOMBIE_INCREASE.
QuotaFollowsWave ==
  gameState.zombiesInWave =
    BASE_ZOMBIES_PER_WAVE + (gameState.currentWave - 1) * WAVE_ZOMBIE_INCREASE

\* C14, the case: the frame has started the second wave, whose quota is 15.
SecondWaveStarted ==
  /\ Updated /\ obs.waves = <<"start">>
  /\ gameState.currentWave = 2
  /\ gameState.zombiesInWave = BASE_ZOMBIES_PER_WAVE + WAVE_ZOMBIE_INCREASE

\* No escaped zombie and no zombie beyond the bottom boundary is live, and the
\* escapes of the frame are the first calls of damagePlayer in it, each with
\* damage 5.
EscapesRemoved ==
  /\ \A i \in 1..Len(zombies) :
        /\ zombies[i].id \notin Range(obs.escapes)
        /\ ~(zombies[i].y > CANVAS_HEIGHT + zombies[i].radius)
  /\ Len(obs.escapes) <= Len(obs.hits)
  /\ \A k \in 1..Len(obs.escapes) : obs.hits[k].damage = 5

\* C15 as stated: every zombie beyond the bottom boundary is removed in the
\* zombie update of the tick, and each escape takes 5 from player.health.
EscapeTakesFive ==
  Updated =>
    /\ EscapesRemoved
    /\ \A k \in 1..Len(obs.escapes) :
          obs.hits[k].after = obs.hits[k].before - 5

\* C15: every zombie beyond the bottom boundary is removed in the zombie update
\* of the tick, and each escape takes 5 from player.health unless the player
\* is invulnerable at that moment, when it takes nothing.
EscapeTakesFiveUnlessInvulnerable ==
  Updated =>
    /\ EscapesRemoved
    /\ \A k \in 1..Len(obs.escapes) :
          obs.hits[k].after =
            IF obs.hits[k].invulnerableTime > 0 THEN obs.hits[k].before
            ELSE obs.hits[k].before - 5

\* C15, the case: a zombie has escaped in the frame past a player who was not
\* invulnerable, it is no longer live and the player has lost 5.
EscapeTookFive ==
  /\ Updated /\ Len(obs.escapes) = 1
  /\ obs.hits[1].damage = 5 /\ obs.hits[1].invulnerableTime = 0
  /\ obs.hits[1].after = obs.hits[1].before - 5
  /\ \A i \in 1..Len(zombies) : zombies[i].id # obs.escapes[1]

\* C16: the step that respawns the player leaves isDead false, no zombie, no
\* bullet, no muzzle flash and no explosion, player.health = maxHealth,
\* player.invulnerableTime = 2000, zombiesSpawned = 0 and waveActive true, and
\* does not change currentWave, zombiesInWave, shooterCount or the gates.
RespawnResets ==
  [][ (isDead /\ ~isDead') =>
        /\ zombies' = << >> /\ bullets' = << >>
        /\ muzzleFlashes' = << >> /\ explosions' = << >>
        /\ player'.health = player'.maxHealth
        /\ player'.maxHealth = player.maxHealth
        /\ player'.invulnerableTime = 2000
        /\ gameState'.zombiesSpawned = 0
        /\ gameState'.waveActive
        /\ gameState'.currentWave = gameState.currentWave
        /\ gameState'.zombiesInWave = gameState.zombiesInWave
        /\ player'.shooterCount = player.shooterCount
        /\ gates' = gates ]_vars

\* C16, the case: the frame has respawned the player, gates being on the
\* canvas.
JustRespawned ==
  /\ obs.phase = "dead" /\ obs.waves = <<"respawn">>
  /\ ~isDead /\ player.invulnerableTime = 2000
  /\ Len(gates) > 0

\* C17: a frame of the paused game changes nothing of the player, the bullets,
\* the zombies, the gates, the game state, the effects and the spawn and shoot
\* timers; it only advances lastTime.
PausedFrameSkipsUpdate ==
  [][ (gameState.isPaused /\ lastTime' # lastTime) =>
        /\ lastTime' > lastTime
        /\ UNCHANGED <<player, bullets, zombies, gates, gameState, muzzleFlashes,
                       explosions, lastZombieSpawnTime, lastGateSpawnTime,
                       deathTime, isDead, keys, serial>> ]_vars

\* C17, the case: a frame has run on the paused game while the player was alive
\* with zombies, bullets and an explosion on the canvas.
PausedFrameRan ==
  /\ gameState.isPaused /\ obs.phase = "paused"
  /\ lastTime > 1800
  /\ ~isDead
  /\ Len(zombies) > 0 /\ Len(bullets) > 0 /\ Len(explosions) > 0

\* C18: when the zombie-vs-player pass of a tick starts with the player not
\* invulnerable, every zombie that overlapped the player with its cooldown over
\* at the start of the collision phase, and that no bullet of the tick killed,
\* is processed: it has attacked, its lastAttackTime is the time of the frame
\* if it is still live, and an exploder among them has exploded and is gone.
ContactPassSkipsNoZombie ==
  (Updated /\ obs.invAtContact <= 0) =>
    /\ \A i \in obs.atCollision.inReach :
          \/ obs.atCollision.attackTimes[i].id \in Range(obs.attacks)
          \/ \E h \in 1..Len(obs.bulletHits) :
                /\ obs.bulletHits[h].zombie = obs.atCollision.attackTimes[i].id
                /\ obs.bulletHits[h].died
    /\ \A a \in 1..Len(obs.attacks) :
          /\ \A i \in 1..Len(zombies) :
                zombies[i].id = obs.attacks[a] =>
                  /\ zombies[i].lastAttackTime = obs.time
                  /\ zombies[i].type # "exploder"
          /\ (\A i \in 1..Len(zombies) : zombies[i].id # obs.attacks[a])
                => \E b \in 1..Len(obs.blasts) :
                      /\ obs.blasts[b].id = obs.attacks[a]
                      /\ obs.blasts[b].cause = "contact"

\* C20: an explosion is gone after the first update at which 500 ms or more of
\* frame time have passed since the frame that created it, and until then its
\* radius is maxRadius * elapsed / lifetime, between 0 and maxRadius.  The
\* frame that created an explosion is the one at createdAt - timeOrigin.
ExplosionGrowsAndExpires ==
  Updated =>
    \A k \in 1..Len(explosions) :
       LET e == explosions[k]
           elapsed == obs.time - (e.createdAt - timeOrigin)
       IN  /\ elapsed < e.lifetime
           /\ e.radius = Trunc(e.maxRadius * elapsed, e.lifetime)
           /\ 0 <= e.radius /\ e.radius <= e.maxRadius

\* C19: while the player lives and frames keep coming, every active wave
\* spawns its whole quota, then has no live zombie and rests, and every resting
\* wave becomes active again with the next wave number, more than WAVE_DELAY of
\* frame time after it came to rest; so the wave number reaches MaxWave.
WaveProgress ==
  /\ \A k \in 1..(MaxWave - 1) :
        /\ (gameState.waveActive /\ gameState.currentWave = k)
              ~> \/ isDead
                 \/ /\ gameState.currentWave = k
                    /\ gameState.zombiesSpawned = gameState.zombiesInWave
        /\ (gameState.waveActive /\ gameState.currentWave = k)
              ~> \/ isDead
                 \/ /\ gameState.currentWave = k /\ ~gameState.waveActive
                    /\ Len(zombies) = 0
        /\ (~gameState.waveActive /\ gameState.currentWave = k)
              ~> \/ isDead
                 \/ gameState.waveActive /\ gameState.currentWave = k + 1
  /\ [][ (~gameState.waveActive /\ gameState'.waveActive) =>
            lastTime' - gameState.waveStartTime > WAVE_DELAY ]_vars
  /\ <>(isDead \/ gameState.currentWave = MaxWave)

\* C19, the case: the player has lived through the first wave and its rest,
\* and the frame has started the wave numbered MaxWave.
WaveGoalReached ==
  /\ Updated /\ obs.waves = <<"start">>
  /\ ~isDead /\ gameState.waveActive
  /\ gameState.currentWave = MaxWave

\* C21: 0 <= zombiesSpawned <= zombiesInWave in every state; a step spawns at
\* most one zombie, only while the wave is active, and more than
\* ZOMBIE_SPAWN_INTERVAL of frame time after lastZombieSpawnTime, which every
\* spawn sets to the time of its frame and which never goes back: two
\* consecutive spawns are more than ZOMBIE_SPAWN_INTERVAL apart.
SpawnWithinQuotaAndInterval ==
  [][ /\ 0 <= gameState'.zombiesSpawned
      /\ gameState'.zombiesSpawned <= gameState'.zombiesInWave
      /\ serial'.zombies - serial.zombies \in {0, 1}
      /\ lastZombieSpawnTime' >= lastZombieSpawnTime
      /\ serial'.zombies # serial.zombies =>
            /\ gameState.waveActive
            /\ obs'.spawns = <<serial'.zombies>>
            /\ lastZombieSpawnTime' = lastTime'
            /\ lastTime' - lastZombieSpawnTime > ZOMBIE_SPAWN_INTERVAL ]_vars

\* C21, the case: the frame has spawned the last zombie of the quota while
\* earlier zombies of the wave are live.
QuotaJustSpawned ==
  /\ Updated /\ Len(obs.spawns) = 1
  /\ gameState.waveActive
  /\ gameState.zombiesSpawned = gameState.zombiesInWave
  /\ Len(zombies) > 1

\* C22: damageZombie lowers the health by the damage, not below 0, and returns
\* true exactly when it brings a positive health to 0, so that it returns true
\* at most once for a zombie: a standard zombie of health 60 hit three times by
\* 20 has health 40, 20, 0 and only the third call returns true; the same holds
\* of a call on any live zombie with the damage of a bullet, of a spit or of a
\* splash, and no bullet that hits a zombie of health 0 reports a death.
DamageZombieDiesOnce ==
  /\ LET first == damageZombie(createZombie("standard", 0, 0, 1), 20, 0)
         second == damageZombie(first.zombie, 20, 0)
         third == damageZombie(second.zombie, 20, 0)
     IN  /\ first.zombie.health = 40 /\ ~first.died
         /\ second.zombie.health = 20 /\ ~second.died
         /\ third.zombie.health = 0 /\ third.died
  /\ \A i \in 1..Len(zombies) :
        \A d \in {BULLET_DAMAGE, ZOMBIE_CONFIGS.spitter.damage, 50} :
           LET call == damageZombie(zombies[i], d, 0)
           IN  /\ call.zombie.health = Max(0, zombies[i].health - d)
               /\ call.died <=> (zombies[i].health > 0 /\ zombies[i].health - d <= 0)
  /\ \A h \in 1..Len(obs.bulletHits) :
        obs.bulletHits[h].died => obs.bulletHits[h].before > 0

\* The sum of the weights of the first n types of the enumeration.
Cumulative(weights, n) == SumWeights(weights, 1) - SumWeights(weights, n + 1)

\* C23: over the spawn weights of the five types, for every draw in
\* [0, total), taken in hundredths of a unit of weight, the selection returns
\* the first type of the enumeration whose cumulative weight is not below the
\* draw; that is one of the five types, found by the loop and not by the
\* fallback, and the draws mapped to a type are those above the cumulative
\* weight before it up to its own, a band as long as its weight: its share of
\* the draws is weight / total.
WeightedSelectionByBands ==
  lastTime = 0 =>
    /\ SumWeights(SpawnWeights, 1) = 100
    /\ \A t \in DOMAIN SpawnWeights : SpawnWeights[t] > 0
    /\ \A r \in 0..(SumWeights(SpawnWeights, 1) * 100 - 1) :
          LET picked == WeightedPick(SpawnWeights, 1, r)
              First == CHOOSE n \in 1..Len(ZombieTypeOrder) :
                          /\ r <= Cumulative(SpawnWeights, n) * 100
                          /\ \A m \in 1..(n - 1) :
                                r > Cumulative(SpawnWeights, m) * 100
          IN  /\ \E n \in 1..Len(ZombieTypeOrder) :
                    r <= Cumulative(SpawnWeights, n) * 100
              /\ picked = ZombieTypeOrder[First]
              /\ picked \in DOMAIN ZOMBIE_CONFIGS
              /\ Cumulative(SpawnWeights, First) - Cumulative(SpawnWeights, First - 1)
                    = SpawnWeights[picked]
    /\ \A k \in 0..99 :
          weightedRandomZombieType(SpawnWeights, k)
            = WeightedPick(SpawnWeights, 1, k * 100)

\* C23, the case: the frame has spawned a zombie of the type the selection
\* returns for the draw of the scenario, an exploder for the draw 0.97.
ExploderDrawn ==
  /\ Updated /\ Len(obs.spawns) = 1
  /\ Len(zombies) > 0
  /\ zombies[Len(zombies)].id = obs.spawns[1]
  /\ zombies[Len(zombies)].type = weightedRandomZombieType(SpawnWeights, 97)
  /\ zombies[Len(zombies)].type = "exploder"

\* A zombie where createZombie(type, lane) puts it: inside the band of the lane
\* inset by its radius, at y = -radius * 2.
PlacedInLane(zombie, type, lane) ==
  /\ zombie.type = type
  /\ lane * (CANVAS_WIDTH \div 2) + zombie.radius <= zombie.x
  /\ zombie.x <= (lane + 1) * (CANVAS_WIDTH \div 2) - zombie.radius
  /\ lane = 0 => (0 <= zombie.x /\ zombie.x <= CANVAS_WIDTH \div 2)
  /\ zombie.y = -zombie.radius * 2
  /\ zombie.radius = ZOMBIE_CONFIGS[type].radius
  /\ zombie.maxHealth = ZOMBIE_CONFIGS[type].health

\* A zombie as createZombie(type, lane) makes it: placed in the lane, with the
\* health of its type.
FreshInLane(zombie, type, lane) ==
  /\ PlacedInLane(zombie, type, lane)
  /\ zombie.health = zombie.maxHealth

\* C24: for each of the five types, each of the two lanes and every value of
\* the random draw, createZombie yields a zombie inside the band of the lane
\* inset by its radius, at y = -radius * 2, with health = maxHealth = the
\* health of the type; the zombie a frame has just spawned stands where
\* createZombie put it (a bullet of the same frame may already have hit it).
ZombieCreatedInLane ==
  /\ lastTime = 0 =>
        \A type \in DOMAIN ZOMBIE_CONFIGS : \A lane \in {0, 1} : \A xDraw \in 0..99 :
           FreshInLane(createZombie(type, lane, xDraw, 1), type, lane)
  /\ (Updated /\ Len(obs.spawns) = 1 /\ Len(zombies) > 0
        /\ zombies[Len(zombies)].id = obs.spawns[1]) =>
        \E lane \in {0, 1} :
           PlacedInLane(zombies[Len(zombies)], zombies[Len(zombies)].type, lane)

\* C24, the case: the frame has spawned a standard zombie in lane 1, which
\* stands as createZombie made it.
StandardJustSpawned ==
  /\ Updated /\ Len(obs.spawns) = 1
  /\ Len(zombies) > 0
  /\ zombies[Len(zombies)].id = obs.spawns[1]
  /\ FreshInLane(zombies[Len(zombies)], "standard", 1)

\* C25: the wave check of a tick runs after the zombie update and the spawning
\* and before the collisions.  A tick whose wave check finds the active wave
\* with its quota spawned and no live zombie, as when the last zombie has left
\* through the bottom in that tick, ends with the wave resting; a tick whose
\* wave check finds a live zombie ends with the wave active, whatever its
\* collisions kill; and when a tick ends with the wave active, the quota
\* spawned and no live zombie, the next update tick ends with the wave resting.
WaveCheckBeforeCollisions ==
  [][ (lastTime' # lastTime /\ obs'.phase = "update") =>
        /\ ( /\ obs'.atWave.waveActive /\ obs'.atWave.live = 0
             /\ obs'.atWave.zombiesSpawned >= obs'.atWave.zombiesInWave )
              => (~gameState'.waveActive /\ obs'.waves = <<"complete">>)
        /\ (obs'.atWave.waveActive /\ obs'.atWave.live > 0)
              => (gameState'.waveActive /\ obs'.waves = << >>)
        /\ ( /\ gameState.waveActive /\ Len(zombies) = 0
             /\ gameState.zombiesSpawned >= gameState.zombiesInWave )
              => (~gameState'.waveActive /\ obs'.waves = <<"complete">>) ]_vars

\* C25, the case: a bullet of the frame has killed the last live zombie of a
\* wave whose quota is spawned, and the wave is active at the end of the frame.
LastZombieShot ==
  /\ Updated
  /\ obs.atWave.live = 1 /\ obs.atCollision.live = 1
  /\ Len(obs.bulletHits) > 0 /\ Len(obs.deaths) = 1
  /\ Len(zombies) = 0
  /\ gameState.zombiesSpawned = gameState.zombiesInWave
  /\ gameState.waveActive

\* A key of the direction is down, as updatePlayer reads this.keys.
HeldLeft == "a" \in keys \/ "arrowleft" \in keys

HeldRight == "d" \in keys \/ "arrowright" \in keys

\* C26: after every update tick the player is inside the canvas horizontally
\* and pinned to its row at the bottom; over one update tick player.x changes
\* by at most player.speed, and not at all when a left key and a right key are
\* both held with the player a step or more away from both edges.
PlayerStaysOnRow ==
  [][ (lastTime' # lastTime /\ obs'.phase = "update") =>
        /\ 0 <= player'.x /\ player'.x <= CANVAS_WIDTH - player'.width
        /\ player'.y = CANVAS_HEIGHT - player'.height - Px(20)
        /\ player'.x - player.x <= player.speed
        /\ player.x - player'.x <= player.speed
        /\ ( /\ HeldLeft /\ HeldRight
             /\ player.x >= player.speed
             /\ player.x <= CANVAS_WIDTH - player.width - player.speed )
              => player'.x = player.x ]_vars

\* The player stands at the right edge of the canvas after a tick that clamped
\* it there, having stood at the left edge and between two held keys before.
PlayerHeldAtEdge ==
  /\ Updated
  /\ HeldRight /\ ~HeldLeft
  /\ player.x = CANVAS_WIDTH - player.width
  /\ keyPos = 5

\* A bullet in the canvas grown by 50 px on every side, not older than
\* BULLET_LIFETIME at the time.
BulletInPlay(b, currentTime) ==
  /\ -Px(50) <= b.x /\ b.x <= CANVAS_WIDTH + Px(50)
  /\ -Px(50) <= b.y /\ b.y <= CANVAS_HEIGHT + Px(50)
  /\ currentTime - b.createdAt <= BULLET_LIFETIME

\* C27: in every update tick the bullets that updateBullets leaves, and the
\* bullets at the end of the tick, are all inside the canvas grown by 50 px and
\* not older than BULLET_LIFETIME; a bullet whose age at the tick is above
\* BULLET_LIFETIME is not among the bullets after the tick.
BulletsDoNotAccumulate ==
  [][ (lastTime' # lastTime /\ obs'.phase = "update") =>
        /\ \A s \in {updateBullets(updatePlayer(Game(timeOrigin + lastTime'), lastTime',
                                                 lastTime' - lastTime), lastTime')} :
             \A i \in 1..Len(s.bullets) : BulletInPlay(s.bullets[i], lastTime')
        /\ \A i \in 1..Len(bullets') : BulletInPlay(bullets'[i], lastTime')
        /\ \A i \in 1..Len(bullets) :
             lastTime' - bullets[i].createdAt > BULLET_LIFETIME
               => \A j \in 1..Len(bullets') : bullets'[j].id # bullets[i].id ]_vars

\* A bullet has reached the age of BULLET_LIFETIME in flight: the next update
\* tick is the first one later than its lifetime.
BulletAtLifetime ==
  /\ Updated
  /\ ~isDead
  /\ \E i \in 1..Len(bullets) : lastTime - bullets[i].createdAt = BULLET_LIFETIME

\* C28: an update tick fires a shot exactly when its time is more than
\* shootInterval after lastShootTime; a tick that fires sets lastShootTime to
\* its time and leaves updatePlayer with min(shooterCount, 10) more bullets
\* (each created at the tick) and as many more muzzle flashes; a tick that does
\* not fire leaves lastShootTime, the bullets and the muzzle flashes alone.
AutoFire ==
  [][ (lastTime' # lastTime /\ obs'.phase = "update") =>
        \A s \in {updatePlayer(Game(timeOrigin + lastTime'), lastTime',
                                lastTime' - lastTime)} :
          IF lastTime' - player.lastShootTime > player.shootInterval
          THEN /\ Len(obs'.shots) = 1
               /\ player'.lastShootTime = lastTime'
               /\ s.player.lastShootTime = lastTime'
               /\ lastTime' - player.lastShootTime > PLAYER_SHOOT_INTERVAL
               /\ Len(s.bullets) = Len(bullets) + Min(player.shooterCount, 10)
               /\ Len(s.muzzleFlashes)
                    = Len(muzzleFlashes) + Min(player.shooterCount, 10)
               /\ player.shooterCount >= 10 => Len(s.bullets) = Len(bullets) + 10
               /\ \A i \in 1..Len(s.bullets) :
                    i > Len(bullets) => /\ s.bullets[i].createdAt = lastTime'
                                        /\ s.bullets[i].from = "player"
               /\ SubSeq(s.bullets, 1, Len(bullets)) = bullets
          ELSE /\ obs'.shots = << >>
               /\ player'.lastShootTime = player.lastShootTime
               /\ s.bullets = bullets
               /\ s.muzzleFlashes = muzzleFlashes ]_vars

\* A shot was fired in the tick by a player of fifty shooters that passed no
\* gate in the tick: ten bullets of the tick are in flight.
CappedShotFired ==
  /\ Updated
  /\ Len(obs.shots) = 1
  /\ player.lastShootTime = lastTime
  /\ player.shooterCount = 50
  /\ obs.gateEffects = << >>
  /\ Cardinality({i \in 1..Len(bullets) : bullets[i].createdAt = lastTime}) = 10

\* A projectile of a spitter (a bullet that carries the damage of a spitter)
\* lies over the player.
ProjectileOverPlayer ==
  \E i \in 1..Len(bullets) :
    /\ bullets[i].damage = ZOMBIE_CONFIGS.spitter.damage
    /\ checkRectCollision(bullets[i], player)

ExplorationMirrorsWave ==
  gameState.explorationMode <=> ~gameState.waveActive

\* C31: at the end of every frame isDead is true exactly when player.health is
\* 0 or less: no phase of the tick of a death raises the health of the dead
\* player above 0.
DeadAgreesWithHealth ==
  isDead <=> player.health <= 0

\* C32: in every state zombiesKilled <= zombiesSpawned <= zombiesInWave, so
\* that zombiesInWave - zombiesKilled, the count the HUD shows, is not
\* negative, also after a death and respawn in the middle of a wave.
WaveCountersConsistent ==
  /\ gameState.zombiesKilled <= gameState.zombiesSpawned
  /\ gameState.zombiesSpawned <= gameState.zombiesInWave
  /\ gameState.zombiesInWave - gameState.zombiesKilled >= 0

\* C33: of the two gates spawned together (the serial numbers 2n - 1 and 2n),
\* at most one has had its effect applied to shooterCount.
OneGateOfAPair ==
  \A a, b \in Range(past.gateEffects) :
     (a + 1) \div 2 = (b + 1) \div 2 => a = b

\* The calls of damagePlayer in the frame that lowered the health.
EffectiveHits ==
  {k \in 1..Len(obs.hits) : obs.hits[k].after # obs.hits[k].before}

\* C34: within one tick the health of the player is lowered at most once, by
\* the damage of one source: the call of damagePlayer that lowers it finds no
\* invulnerability and every later call of the tick finds the full
\* PLAYER_INVULNERABLE_TIME and changes nothing, so that an exploder in contact
\* costs its damage once and not again for its explosion.
OneDamagePerTick ==
  /\ Cardinality(EffectiveHits) <= 1
  /\ \A k \in EffectiveHits :
        /\ obs.hits[k].invulnerableTime <= 0
        /\ obs.hits[k].after = obs.hits[k].before - obs.hits[k].damage
        /\ \A n \in 1..Len(obs.hits) :
              /\ n < k => obs.hits[n].invulnerableTime > 0
              /\ n > k => /\ obs.hits[n].invulnerableTime = PLAYER_INVULNERABLE_TIME
                         /\ obs.hits[n].before = obs.hits[k].after

\* An exploder touched the player: the contact cost its damage and the
\* explosion that followed in the same tick, in reach of the player, nothing.
ExploderContactHurtsOnce ==
  /\ Updated
  /\ \E b \in 1..Len(obs.blasts) : obs.blasts[b].cause = "contact"
  /\ Len(obs.hits) = 2
  /\ EffectiveHits = {1}
  /\ obs.hits[2].damage = obs.hits[1].damage
  /\ player.health = obs.hits[1].before - obs.hits[1].damage

\* The spitters among the zombies at the end of the frame that spat in it.
SpatNow ==
  {j \in 1..Len(zombies) :
     /\ zombies[j].type = "spitter"
     /\ "lastSpitTime" \in DOMAIN zombies[j]
     /\ zombies[j].lastSpitTime = lastTime}

\* The hits of the frame by the projectile of the zombie with this id.
SpitHits(id) ==
  {h \in 1..Len(obs.bulletHits) :
     /\ obs.bulletHits[h].damage = ZOMBIE_CONFIGS.spitter.damage
     /\ obs.bulletHits[h].from = id}

FrozenWhileDead ==
  [][(isDead /\ isDead' /\ lastTime' # lastTime) =>
       /\ obs'.phase = "dead"
       /\ UNCHANGED <<player, bullets, zombies, gates, gameState, muzzleFlashes,
                      explosions, lastZombieSpawnTime, lastGateSpawnTime,
                      deathTime, serial, past>>]_vars

\* A frame found the player dead among zombies, bullets and gates and left
\* them dead.
DeadFrameAmongTheLiving ==
  /\ obs.phase = "dead"
  /\ isDead
  /\ lastTime > past.diedAt
  /\ Len(zombies) > 0
  /\ Len(bullets) > 0
  /\ Len(gates) > 0

\* C37: update of the prototype never throws: no read zombies[i] or
\* bullets[i] of its loops meets a missing element, also after a zombie has
\* hit the player and emptied both arrays in the middle of the zombie loop.
ProtoNeverThrows ==
  ~proto.thrown


====
